---- MODULE Spec2Model ----
(***************************************************************************)
(* Model of the legal-document segmentation engine of                      *)
(* src/semantic_chunker.py (class SemanticChunker).                        *)
(*                                                                         *)
(* Strings.  A Python str is modelled as a sequence of symbols             *)
(* [c |-> <character>, n |-> <repetitions>].  An ordinary character has    *)
(* n = 1.  A symbol with n > 1 is a run of n copies of a filler character  *)
(* (FillChars): printable characters that occur in no character class and  *)
(* no literal of any regular expression of the program, so that a run can  *)
(* stand for prose of realistic length (the thresholds are 500, 5000 and   *)
(* 8000 characters) without the model holding 8000 symbols.  len(),        *)
(* slicing, strip(), split() and + are computed on characters, not on      *)
(* symbols.                                                                *)
(*                                                                         *)
(* Regular expressions.  Each pattern of the source is written as a syntax *)
(* tree and matched by a backtracking matcher that returns the matches in  *)
(* the priority order of Python's re (greedy before lazy alternatives),    *)
(* the first being the one re reports.                                     *)
(*                                                                         *)
(* Specifications.  Spec is one call of chunk_document, step by step;      *)
(* ConcSpec is several such calls interleaved.  HandlerSpec, SectionSpec,  *)
(* ParagraphSpec and ValidatorSpec are single calls of                     *)
(* _handle_non_order_content, _chunk_by_sections, _split_by_paragraphs and *)
(* _validate_and_merge_chunks on arguments drawn from bounded sets.        *)
(***************************************************************************)
EXTENDS Integers, Sequences, FiniteSets, TLC

VARIABLES
    full_text,         \* chunk_document's argument
    pc,                \* position inside chunk_document
    order_boundaries,  \* result of _identify_order_boundaries
    chunks,            \* the chunk list being built / returned
    bi,                \* _extract_order_chunks: index of the next boundary
    x_order_text,      \* _extract_order_chunks: order_text of the last iteration
    x_order_num,       \* _extract_order_chunks: order_num of the last iteration
    sub_chunks,        \* _extract_order_chunks: last result of _split_large_order
    x_max_size,        \* _split_by_paragraphs called on its own: its max_size
    x_validated_chunks \* _validate_and_merge_chunks called on its own: its result

vars == <<full_text, pc, order_boundaries, chunks, bi, x_order_text, x_order_num,
          sub_chunks, x_max_size, x_validated_chunks>>

\* ---------------------------------------------------------------- constants
MIN_CHUNK_SIZE == 500
MAX_CHUNK_SIZE == 8000
RULE_SPLIT_THRESHOLD == 5000
\* _fallback_chunking's paragraph bound
FALLBACK_SIZE == 1000
\* _handle_non_order_content / _chunk_by_sections: spans this short are dropped
NOISE_LEN == 100

\* ------------------------------------------------------------------ strings
NLc == "\n"
Ch(c) == [c |-> c, n |-> 1]
Run(c, k) == [c |-> c, n |-> k]
\* a str literal, given character by character
Str(cs) == [i \in 1..Len(cs) |-> Ch(cs[i])]

\* str.isspace characters of the model's alphabet
WS == {" ", NLc, "\t"}
UpperLetters ==
    {"A","B","C","D","E","F","G","H","I","J","K","L","M",
     "N","O","P","Q","R","S","T","U","V","W","X","Y","Z"}
LowerLetters ==
    {"a","b","c","d","e","f","g","h","i","j","k","l","m",
     "n","o","p","q","r","s","t","u","v","w","x","y","z"}
Digits == {"0","1","2","3","4","5","6","7","8","9"}
\* hyphen, en dash, em dash
Dashes == {"-", "endash", "emdash"}
\* characters that no pattern of the program can match
FillChars == {"~","*","@","%","&","!","?",";","/","=","+","_","|","<",">","^"}

UpperSeq == <<"A","B","C","D","E","F","G","H","I","J","K","L","M",
              "N","O","P","Q","R","S","T","U","V","W","X","Y","Z">>
LowerSeq == <<"a","b","c","d","e","f","g","h","i","j","k","l","m",
              "n","o","p","q","r","s","t","u","v","w","x","y","z">>
\* re.IGNORECASE: a class also matches the other case of each of its letters
IC(S) == S \cup {LowerSeq[i] : i \in {j \in 1..26 : UpperSeq[j] \in S}}
           \cup {UpperSeq[i] : i \in {j \in 1..26 : LowerSeq[j] \in S}}

IsSpace(sym) == sym.c \in WS

\* the least element of a non-empty set of integers
MinOf(S) == CHOOSE x \in S : \A y \in S : x <= y

RECURSIVE StrLen(_)
\* len(s), the two halves of s counted apart
StrLen(s) ==
    IF Len(s) = 0 THEN 0
    ELSE IF Len(s) = 1 THEN s[1].n
    ELSE StrLen(SubSeq(s, 1, Len(s) \div 2))
         + StrLen(SubSeq(s, Len(s) \div 2 + 1, Len(s)))

RECURSIVE Ends(_)
\* the character offset at which each symbol of s ends
Ends(s) ==
    IF Len(s) = 0 THEN <<>>
    ELSE IF Len(s) = 1 THEN <<s[1].n>>
    ELSE LET h == Len(s) \div 2
             left == Ends(SubSeq(s, 1, h))
             right == Ends(SubSeq(s, h + 1, Len(s)))
         IN  left \o [k \in 1..Len(right) |-> left[h] + right[k]]

\* s[a:]
DropChars(s, a) ==
    IF a <= 0 \/ s = <<>> THEN s
    ELSE LET ends == Ends(s)
             k == Cardinality({j \in 1..Len(s) : ends[j] <= a})
             used == IF k = 0 THEN 0 ELSE ends[k]
         IN  IF k = Len(s) THEN <<>>
             ELSE IF used = a THEN SubSeq(s, k + 1, Len(s))
             ELSE <<Run(s[k + 1].c, s[k + 1].n - (a - used))>>
                  \o SubSeq(s, k + 2, Len(s))

\* s[:b]
TakeChars(s, b) ==
    IF b <= 0 \/ s = <<>> THEN <<>>
    ELSE LET ends == Ends(s)
             k == Cardinality({j \in 1..Len(s) : ends[j] <= b})
             used == IF k = 0 THEN 0 ELSE ends[k]
         IN  SubSeq(s, 1, k)
             \o (IF k < Len(s) /\ used < b
                 THEN <<Run(s[k + 1].c, b - used)>> ELSE <<>>)

\* s[a:b] for 0 <= a, 0 <= b
Slice(s, a, b) == TakeChars(DropChars(s, a), b - a)

\* the number of whitespace symbols at the start and at the end of a string
\* that is not all whitespace
LeadingSpace(s) ==
    CHOOSE k \in 0..(Len(s) - 1) :
        ~IsSpace(s[k + 1]) /\ \A j \in 1..k : IsSpace(s[j])
TrailingSpace(s) ==
    CHOOSE k \in 0..(Len(s) - 1) :
        ~IsSpace(s[Len(s) - k]) /\ \A j \in 1..k : IsSpace(s[Len(s) - j + 1])

\* s.strip(): from the first to the last symbol that is not whitespace
Strip(s) ==
    IF \A j \in 1..Len(s) : IsSpace(s[j]) THEN <<>>
    ELSE SubSeq(s, LeadingSpace(s) + 1, Len(s) - TrailingSpace(s))

\* character offset (0-based) of the symbol at index i (1-based)
OffsetOf(s, i) == StrLen(SubSeq(s, 1, i - 1))

NLNL == Str(<<NLc, NLc>>)

RECURSIVE Concat(_)
\* the sequences of a list, one after the other
Concat(cs) ==
    IF Len(cs) = 0 THEN <<>>
    ELSE IF Len(cs) = 1 THEN cs[1]
    ELSE Concat(SubSeq(cs, 1, Len(cs) \div 2))
         \o Concat(SubSeq(cs, Len(cs) \div 2 + 1, Len(cs)))

RECURSIVE SplitFrom(_, _, _)
\* the pieces of s from index p on, "at" being the indices at which a '\n\n'
\* starts: the leftmost taken first, the search resuming behind it
SplitFrom(s, at, p) ==
    LET next == {q \in at : q >= p}
    IN  IF next = {} THEN <<SubSeq(s, p, Len(s))>>
        ELSE <<SubSeq(s, p, MinOf(next) - 1)>> \o SplitFrom(s, at, MinOf(next) + 2)

\* s.split('\n\n'): left to right, non-overlapping; cur is the piece being
\* read when index i is reached
SplitParas(s, i, cur) ==
    LET pieces == SplitFrom(s, {q \in i..(Len(s) - 1) :
                                  s[q].c = NLc /\ s[q + 1].c = NLc}, i)
    IN  [pieces EXCEPT ![1] = cur \o @]

\* ------------------------------------------------------ regular expressions
\* syntax trees
Cls(S) == [t |-> "cls", s |-> S]
Cat(xs) == [t |-> "cat", xs |-> xs]
\* r{min,} greedy (r+, r*) or lazy (r+?)
Rep(r, min, greedy) == [t |-> "rep", r |-> r, min |-> min, g |-> greedy]
\* r?
Opt(r) == [t |-> "opt", r |-> r]
\* capturing group number k
Grp(k, r) == [t |-> "grp", k |-> k, r |-> r]
\* (?=[S])
Ahead(S) == [t |-> "ahead", s |-> S]
\* a literal word under re.IGNORECASE
LitIC(cs) == Cat([i \in 1..Len(cs) |-> Cls(IC({cs[i]}))])
\* a literal word, case-sensitive
Lit(cs) == Cat([i \in 1..Len(cs) |-> Cls({cs[i]})])

\* one character of class S at symbol index p; a filler run is in no class
ClsAt(s, p, S) == p <= Len(s) /\ s[p].n = 1 /\ s[p].c \in S

NoGroup == <<0, 0>>

RECURSIVE M(_, _, _)
RECURSIVE MCat(_, _, _, _, _)
RECURSIVE MRep(_, _, _, _, _)
RECURSIVE MRepAll(_, _, _, _, _)

\* The matcher.  A match state is [pos |-> index of the next symbol,
\* g |-> the groups' <<from, to>> index pairs].  M returns every way r matches
\* s from st, in the order in which a backtracking matcher tries them.
M(r, s, st) ==
    CASE r.t = "cls" ->
           IF ClsAt(s, st.pos, r.s) THEN <<[st EXCEPT !.pos = @ + 1]>> ELSE <<>>
      [] r.t = "ahead" ->
           IF ClsAt(s, st.pos, r.s) THEN <<st>> ELSE <<>>
      [] r.t = "cat" ->
           \* single characters in a row match in one way or not at all
           IF \A i \in 1..Len(r.xs) : r.xs[i].t = "cls"
           THEN IF \A i \in 1..Len(r.xs) : ClsAt(s, st.pos + i - 1, r.xs[i].s)
                THEN <<[st EXCEPT !.pos = @ + Len(r.xs)]>> ELSE <<>>
           ELSE MCat(r.xs, 1, Len(r.xs), s, <<st>>)
      [] r.t = "opt" -> M(r.r, s, st) \o <<st>>
      [] r.t = "rep" -> MRep(r.r, r.min, r.g, s, st)
      [] r.t = "grp" ->
           LET inner == M(r.r, s, st)
           IN  [i \in 1..Len(inner) |->
                  [inner[i] EXCEPT !.g[r.k] = <<st.pos, inner[i].pos>>]]

\* the matches of r from each state of sts, in the order of sts
MAll(r, s, sts) ==
    IF Len(sts) = 1 THEN M(r, s, sts[1])
    ELSE Concat([i \in 1..Len(sts) |-> M(r, s, sts[i])])

\* xs[lo], ..., xs[hi] in a row from each state of sts: the first half, then
\* the second half from where the first ended; no state, no match
MCat(xs, lo, hi, s, sts) ==
    IF lo = hi THEN MAll(xs[lo], s, sts)
    ELSE LET first == MCat(xs, lo, (lo + hi) \div 2, s, sts)
         IN  IF first = <<>> THEN <<>>
             ELSE MCat(xs, (lo + hi) \div 2 + 1, hi, s, first)

\* the number of consecutive characters of class S from symbol index p on
RunOf(s, p, S) ==
    CHOOSE k \in 0..(Len(s) + 1 - p) :
        ~ClsAt(s, p + k, S) /\ \A j \in 0..(k - 1) : ClsAt(s, p + j, S)

\* r{min,} from st.  A repeated character class takes min, ..., RunOf
\* characters, the longest first when greedy and the shortest first when lazy;
\* any other r is matched once and repeated from each of its results.
MRep(r, min, greedy, s, st) ==
    IF r.t = "cls"
    THEN LET run == RunOf(s, st.pos, r.s)
         IN  [j \in 1..(run - min + 1) |->
                [st EXCEPT !.pos = @ + (IF greedy THEN run - j + 1
                                        ELSE min + j - 1)]]
    ELSE LET once == M(r, s, st)
             more == MRepAll(r, IF min > 0 THEN min - 1 ELSE 0, greedy, s, once)
         IN  IF min > 0 THEN more
             ELSE IF greedy THEN more \o <<st>> ELSE <<st>> \o more

MRepAll(r, min, greedy, s, sts) ==
    IF Len(sts) = 0 THEN <<>>
    ELSE MRep(r, min, greedy, s, Head(sts)) \o MRepAll(r, min, greedy, s, Tail(sts))

GroupText(s, g) == IF g = NoGroup THEN <<>> ELSE SubSeq(s, g[1], g[2] - 1)

\* a match object: start(), end() as character offsets, groups() as strings
\* (an unmatched group, None, is the empty string here)
MatchObj(s, p, st) ==
    [start |-> OffsetOf(s, p), end |-> OffsetOf(s, st.pos),
     groups |-> [k \in 1..Len(st.g) |-> GroupText(s, st.g[k])],
     text |-> SubSeq(s, p, st.pos - 1)]

\* the ways r matches s at symbol index p; ng = number of groups
MatchAt(r, ng, s, p) == M(r, s, [pos |-> p, g |-> [k \in 1..ng |-> NoGroup]])

RECURSIVE FindFrom(_, _, _, _)
\* the successive matches from index p on, "at" being the indices at which r
\* matches: the leftmost first, the next search resuming where it ended
FindFrom(r_ng, s, at, p) ==
    LET next == {q \in at : q >= p}
    IN  IF next = {} THEN <<>>
        ELSE LET q == CHOOSE x \in next : \A y \in next : x <= y
                 m == MatchAt(r_ng[1], r_ng[2], s, q)[1]
             IN  <<MatchObj(s, q, m)>> \o FindFrom(r_ng, s, at, m.pos)

\* list(re.finditer(r, s)) scanning from symbol index p
FindIter(r, ng, s, p) ==
    FindFrom(<<r, ng>>, s,
             {q \in p..Len(s) : Len(MatchAt(r, ng, s, q)) > 0}, p)

\* ----------------------------------------------------- the program's patterns
Roman == {"I", "V", "X", "L", "C", "D", "M"}
WsStar == Rep(Cls(WS), 0, TRUE)
WsPlus == Rep(Cls(WS), 1, TRUE)
OrderWord == LitIC(<<"O", "R", "D", "E", "R">>)
RomanGroup == Grp(1, Rep(Cls(IC(Roman)), 1, TRUE))

\* r'\n#+\s*ORDER\s+([IVXLCDM]+)\s*\n'  (IGNORECASE)
order_pattern_1 ==
    Cat(<<Cls({NLc}), Rep(Cls({"#"}), 1, TRUE), WsStar, OrderWord, WsPlus,
          RomanGroup, WsStar, Cls({NLc})>>)

\* r'\n\s*ORDER\s+([IVXLCDM]+)\s*[-..]?\s*\n'  (IGNORECASE)
order_pattern_2 ==
    Cat(<<Cls({NLc}), WsStar, OrderWord, WsPlus, RomanGroup, WsStar,
          Opt(Cls(Dashes)), WsStar, Cls({NLc})>>)

\* r'\n#+?\s*ORDER\s+([IVXLCDM]+)\s*[-..]?\s*([A-Z][A-Z\s,\-()]+?)(?=\n)'  (IGNORECASE)
order_pattern_3 ==
    Cat(<<Cls({NLc}), Rep(Cls({"#"}), 1, FALSE), WsStar, OrderWord, WsPlus,
          RomanGroup, WsStar, Opt(Cls(Dashes)), WsStar,
          Grp(2, Cat(<<Cls(IC(UpperLetters)),
                       Rep(Cls(IC(UpperLetters) \cup WS \cup {",", "-", "(", ")"}),
                           1, FALSE)>>)),
          Ahead({NLc})>>)

\* r'\n\s*(\d+\.?\s+)?Rule\s+(\d+[A-Z]?)\s*[.:\-..]?\s*'  (IGNORECASE)
rule_pattern ==
    Cat(<<Cls({NLc}), WsStar,
          Opt(Grp(1, Cat(<<Rep(Cls(Digits), 1, TRUE), Opt(Cls({"."})), WsPlus>>))),
          LitIC(<<"R", "u", "l", "e">>), WsPlus,
          Grp(2, Cat(<<Rep(Cls(Digits), 1, TRUE), Opt(Cls(IC(UpperLetters)))>>)),
          WsStar, Opt(Cls({".", ":"} \cup Dashes)), WsStar>>)

\* r'\n#+?\s*RULES\s*\n'  (IGNORECASE)
rules_header_pattern ==
    Cat(<<Cls({NLc}), Rep(Cls({"#"}), 1, FALSE), WsStar,
          LitIC(<<"R", "U", "L", "E", "S">>), WsStar, Cls({NLc})>>)

\* r'\n\s*(\d+)\.\s+'
numbered_pattern ==
    Cat(<<Cls({NLc}), WsStar, Grp(1, Rep(Cls(Digits), 1, TRUE)), Cls({"."}),
          WsPlus>>)

\* r'\n\s*(?:Section\s+)?(\d+[A-Z]?)\s*[.:\-..]\s*([A-Z][A-Za-z\s,\-()]+?)(?=\n)'
section_pattern ==
    Cat(<<Cls({NLc}), WsStar,
          Opt(Cat(<<Lit(<<"S", "e", "c", "t", "i", "o", "n">>), WsPlus>>)),
          Grp(1, Cat(<<Rep(Cls(Digits), 1, TRUE), Opt(Cls(UpperLetters))>>)),
          WsStar, Cls({".", ":"} \cup Dashes), WsStar,
          Grp(2, Cat(<<Cls(UpperLetters),
                       Rep(Cls(UpperLetters \cup LowerLetters \cup WS
                               \cup {",", "-", "(", ")"}), 1, FALSE)>>)),
          Ahead({NLc})>>)

\* ------------------------------------------------------ _split_by_paragraphs
RECURSIVE PackParagraphs(_, _, _, _, _)
\* the for loop over paragraphs (lines 298-308) and the final append (310-311)
PackParagraphs(paragraphs, i, max_size, acc, current_chunk) ==
    IF i > Len(paragraphs)
    THEN IF current_chunk # <<>> THEN Append(acc, current_chunk) ELSE acc
    ELSE LET para == Strip(paragraphs[i])
         IN  IF para = <<>>
             THEN PackParagraphs(paragraphs, i + 1, max_size, acc, current_chunk)
             ELSE IF StrLen(current_chunk) + StrLen(para) + 2 <= max_size
             THEN PackParagraphs(paragraphs, i + 1, max_size, acc,
                      IF current_chunk # <<>> THEN current_chunk \o NLNL \o para
                      ELSE para)
             ELSE PackParagraphs(paragraphs, i + 1, max_size,
                      IF current_chunk # <<>> THEN Append(acc, current_chunk)
                      ELSE acc,
                      para)

\* mutant: the final "if current_chunk: chunks.append" (lines 310-311) left out
_split_by_paragraphs_no_tail(text, max_size) ==
    LET r == PackParagraphs(SplitParas(text, 1, <<>>), 1, max_size, <<>>, <<>>)
    IN  SubSeq(r, 1, Len(r) - 1)

\* mutant: the final append made without the "if current_chunk" test
_split_by_paragraphs_keep_empty(text, max_size) ==
    LET r == PackParagraphs(SplitParas(text, 1, <<>>), 1, max_size, <<>>, <<>>)
    IN  IF r = <<>> THEN << <<>> >> ELSE r

\* mutant: no packing, every non-empty paragraph a chunk of its own
_split_by_paragraphs_unpacked(text, max_size) ==
    SelectSeq([i \in 1..Len(SplitParas(text, 1, <<>>)) |->
                  Strip(SplitParas(text, 1, <<>>)[i])],
              LAMBDA para : para # <<>>)

\* mutant: a paragraph longer than max_size left out
_split_by_paragraphs_bounded(text, max_size) ==
    SelectSeq(PackParagraphs(SplitParas(text, 1, <<>>), 1, max_size, <<>>, <<>>),
              LAMBDA chunk : StrLen(chunk) <= max_size)

_split_by_paragraphs(text, max_size) ==
    PackParagraphs(SplitParas(text, 1, <<>>), 1, max_size, <<>>, <<>>)

\* ------------------------------------------------ _validate_and_merge_chunks
\* flush of the pending merge buffer (lines 332-338 and 343-347)
\* mutant: the pending buffer glued to the previous chunk whatever its length
FlushMerge_no_size_test(validated_chunks, current_merge) ==
    IF current_merge = <<>> THEN validated_chunks
    ELSE IF validated_chunks # <<>>
    THEN [validated_chunks EXCEPT
             ![Len(validated_chunks)] = @ \o NLNL \o current_merge]
    ELSE Append(validated_chunks, current_merge)

\* mutant: the pending buffer always emitted as a chunk of its own
FlushMerge_standalone(validated_chunks, current_merge) ==
    IF current_merge = <<>> THEN validated_chunks
    ELSE Append(validated_chunks, current_merge)

\* mutant: the pending buffer glued to the previous chunk with one line break
FlushMerge_single_newline(validated_chunks, current_merge) ==
    IF current_merge = <<>> THEN validated_chunks
    ELSE IF StrLen(current_merge) < MIN_CHUNK_SIZE /\ validated_chunks # <<>>
    THEN [validated_chunks EXCEPT
             ![Len(validated_chunks)] = @ \o Str(<<NLc>>) \o current_merge]
    ELSE Append(validated_chunks, current_merge)

FlushMerge(validated_chunks, current_merge) ==
    IF current_merge = <<>> THEN validated_chunks
    ELSE IF StrLen(current_merge) < MIN_CHUNK_SIZE /\ validated_chunks # <<>>
    THEN [validated_chunks EXCEPT
             ![Len(validated_chunks)] = @ \o NLNL \o current_merge]
    ELSE Append(validated_chunks, current_merge)

RECURSIVE MergeLoop_pairs(_, _, _, _)
\* mutant: the pending buffer emitted as soon as it holds two chunks
MergeLoop_pairs(cs, i, validated_chunks, current_merge) ==
    IF i > Len(cs) THEN FlushMerge(validated_chunks, current_merge)
    ELSE LET chunk == cs[i]
         IN  IF Strip(chunk) = <<>>
             THEN MergeLoop_pairs(cs, i + 1, validated_chunks, current_merge)
             ELSE IF StrLen(chunk) < MIN_CHUNK_SIZE
             THEN IF current_merge # <<>>
                  THEN MergeLoop_pairs(cs, i + 1,
                           Append(validated_chunks,
                                  current_merge \o NLNL \o chunk),
                           <<>>)
                  ELSE MergeLoop_pairs(cs, i + 1, validated_chunks, chunk)
             ELSE MergeLoop_pairs(cs, i + 1,
                      Append(FlushMerge(validated_chunks, current_merge), chunk),
                      <<>>)

RECURSIVE MergeLoop(_, _, _, _)
\* the for loop over chunks (lines 322-340), then the remaining merge
MergeLoop(cs, i, validated_chunks, current_merge) ==
    IF i > Len(cs) THEN FlushMerge(validated_chunks, current_merge)
    ELSE LET chunk == cs[i]
         IN  IF Strip(chunk) = <<>>
             THEN MergeLoop(cs, i + 1, validated_chunks, current_merge)
             ELSE IF StrLen(chunk) < MIN_CHUNK_SIZE
             THEN MergeLoop(cs, i + 1, validated_chunks,
                      IF current_merge # <<>> THEN current_merge \o NLNL \o chunk
                      ELSE chunk)
             ELSE MergeLoop(cs, i + 1,
                      Append(FlushMerge(validated_chunks, current_merge), chunk),
                      <<>>)

\* mutant: blank chunks skipped, under-sized chunks left as they are
_validate_and_merge_chunks_no_merge(cs) ==
    SelectSeq(cs, LAMBDA chunk : Strip(chunk) # <<>>)

_validate_and_merge_chunks(cs) == MergeLoop(cs, 1, <<>>, <<>>)

\* ------------------------------------------------------- _fallback_chunking
\* mutant: the fallback made with the bound of the structured path
_fallback_chunking_max(text) == _split_by_paragraphs(text, MAX_CHUNK_SIZE)

_fallback_chunking(text) == _split_by_paragraphs(text, FALLBACK_SIZE)

\* ----------------------------------------------- _identify_order_boundaries
\* mutant: the matches of the three tiers put together
OrderMatches_union(text) ==
    FindIter(order_pattern_1, 1, text, 1) \o FindIter(order_pattern_2, 1, text, 1)
    \o FindIter(order_pattern_3, 2, text, 1)

\* the cascade of lines 79-91: the matches of the first tier that has any
OrderMatches(text) ==
    LET m1 == FindIter(order_pattern_1, 1, text, 1)
        m2 == FindIter(order_pattern_2, 1, text, 1)
        m3 == FindIter(order_pattern_3, 2, text, 1)
    IN  IF Len(m1) > 0 THEN m1 ELSE IF Len(m2) > 0 THEN m2 ELSE m3

\* index of the first '\n' symbol of s at or after index i, 0 if none (find = -1)
FindNewline(s, i) ==
    LET at == {j \in i..Len(s) : s[j].c = NLc}
    IN  IF at = {} THEN 0 ELSE MinOf(at)

\* s.replace('#', '')
RemoveHashes(s) == SelectSeq(s, LAMBDA x : x.c # "#")

\* the title of lines 97-111
OrderTitle(text, match) ==
    LET in_match == IF Len(match.groups) > 1 /\ match.groups[2] # <<>>
                    THEN Strip(match.groups[2]) ELSE <<>>
        rest == DropChars(text, match.end)
        nl == FindNewline(rest, 1)
        potential_title == Strip(SubSeq(rest, 1, nl - 1))
    IN  IF in_match # <<>> THEN in_match
        ELSE IF nl = 0 THEN <<>>
        ELSE IF Len(potential_title) >= 2 /\ potential_title[1].c = "#"
                /\ potential_title[2].c = "#"
        THEN Strip(RemoveHashes(potential_title))
        ELSE IF potential_title # <<>> /\ potential_title[1].c \in UpperLetters
        THEN potential_title
        ELSE <<>>

\* mutant: end_pos taken from the next match's end() instead of its start()
_identify_order_boundaries_end(text) ==
    LET matches == OrderMatches(text)
    IN  [i \in 1..Len(matches) |->
           [number |-> matches[i].groups[1],
            title |-> OrderTitle(text, matches[i]),
            start_pos |-> matches[i].start,
            end_pos |-> IF i < Len(matches) THEN matches[i + 1].end
                        ELSE StrLen(text),
            full_heading |-> Strip(matches[i].text)]]

\* mutant: the last unit ended at the end of its heading instead of the end
\* of the text
_identify_order_boundaries_short_last(text) ==
    LET matches == OrderMatches(text)
    IN  [i \in 1..Len(matches) |->
           [number |-> matches[i].groups[1],
            title |-> OrderTitle(text, matches[i]),
            start_pos |-> matches[i].start,
            end_pos |-> IF i < Len(matches) THEN matches[i + 1].start
                        ELSE matches[i].end,
            full_heading |-> Strip(matches[i].text)]]

\* the boundary records built from the matches (lines 93-129)
_identify_order_boundaries(text) ==
    LET matches == OrderMatches(text)
    IN  [i \in 1..Len(matches) |->
           [number |-> matches[i].groups[1],
            title |-> OrderTitle(text, matches[i]),
            start_pos |-> matches[i].start,
            end_pos |-> IF i < Len(matches) THEN matches[i + 1].start
                        ELSE StrLen(text),
            full_heading |-> Strip(matches[i].text)]]

\* --------------------------------------------------------- _split_large_order
\* "ORDER {order_num} (continued)"
ContinuedLine(order_num) ==
    Str(<<"O", "R", "D", "E", "R", " ">>) \o order_num
    \o Str(<<" ", "(", "c", "o", "n", "t", "i", "n", "u", "e", "d", ")">>)

\* mutant: the numbered items' offsets not shifted by the header match's end
RuleStarts_relative(order_text) ==
    LET matches == FindIter(rule_pattern, 2, order_text, 1)
        rules_match == FindIter(rules_header_pattern, 0, order_text, 1)
        offset == rules_match[1].end
        numbered_matches ==
            FindIter(numbered_pattern, 1, DropChars(order_text, offset), 1)
    IN  IF Len(matches) > 0 THEN [i \in 1..Len(matches) |-> matches[i].start]
        ELSE IF Len(rules_match) > 0
        THEN [i \in 1..Len(numbered_matches) |-> numbered_matches[i].start]
        ELSE <<>>

\* the sub-boundary start offsets: rule_pattern, else the numbered items below
\* a RULES header, at offsets shifted by the header match's end (lines 165-185)
RuleStarts(order_text) ==
    LET matches == FindIter(rule_pattern, 2, order_text, 1)
        rules_match == FindIter(rules_header_pattern, 0, order_text, 1)
        offset == rules_match[1].end
        numbered_matches ==
            FindIter(numbered_pattern, 1, DropChars(order_text, offset), 1)
    IN  IF Len(matches) > 0 THEN [i \in 1..Len(matches) |-> matches[i].start]
        ELSE IF Len(rules_match) > 0
        THEN [i \in 1..Len(numbered_matches) |-> offset + numbered_matches[i].start]
        ELSE <<>>

\* mutant: the continuation line left out of the later sub-units
RuleChunkText_no_context(order_text, order_num, starts, i) ==
    LET rule_end == IF i < Len(starts) THEN starts[i + 1] ELSE StrLen(order_text)
        rule_text == Strip(Slice(order_text, starts[i], rule_end))
        order_header == Strip(Slice(order_text, 0, starts[1]))
    IN  IF i = 1 THEN order_header \o NLNL \o rule_text ELSE rule_text

\* mutant: the unit's header put in front of every sub-unit
RuleChunkText_header_all(order_text, order_num, starts, i) ==
    LET rule_end == IF i < Len(starts) THEN starts[i + 1] ELSE StrLen(order_text)
        rule_text == Strip(Slice(order_text, starts[i], rule_end))
        order_header == Strip(Slice(order_text, 0, starts[1]))
    IN  order_header \o NLNL \o rule_text

\* mutant: the unit's header left out of the first chunk
RuleChunkText_no_header(order_text, order_num, starts, i) ==
    LET rule_end == IF i < Len(starts) THEN starts[i + 1] ELSE StrLen(order_text)
        rule_text == Strip(Slice(order_text, starts[i], rule_end))
    IN  IF i = 1 THEN rule_text
        ELSE ContinuedLine(order_num) \o NLNL \o rule_text

\* the chunk text of sub-unit i (lines 195-204)
RuleChunkText(order_text, order_num, starts, i) ==
    LET rule_end == IF i < Len(starts) THEN starts[i + 1] ELSE StrLen(order_text)
        rule_text == Strip(Slice(order_text, starts[i], rule_end))
        order_header == Strip(Slice(order_text, 0, starts[1]))
    IN  IF i = 1 THEN order_header \o NLNL \o rule_text
        ELSE ContinuedLine(order_num) \o NLNL \o rule_text

RECURSIVE RuleChunks_no_resplit(_, _, _, _)
\* mutant: an over-sized sub-unit chunk appended as it is (lines 207-209 left out)
RuleChunks_no_resplit(order_text, order_num, starts, i) ==
    IF i > Len(starts) THEN <<>>
    ELSE <<RuleChunkText(order_text, order_num, starts, i)>>
         \o RuleChunks_no_resplit(order_text, order_num, starts, i + 1)

RECURSIVE RuleChunks(_, _, _, _)
\* the for loop of lines 194-211
RuleChunks(order_text, order_num, starts, i) ==
    IF i > Len(starts) THEN <<>>
    ELSE LET chunk_text == RuleChunkText(order_text, order_num, starts, i)
         IN  (IF StrLen(chunk_text) > MAX_CHUNK_SIZE
              THEN _split_by_paragraphs(chunk_text, MAX_CHUNK_SIZE)
              ELSE <<chunk_text>>)
             \o RuleChunks(order_text, order_num, starts, i + 1)

_split_large_order(order_text, order_num) ==
    LET starts == RuleStarts(order_text)
    IN  IF Len(starts) = 0 THEN _split_by_paragraphs(order_text, MAX_CHUNK_SIZE)
        ELSE RuleChunks(order_text, order_num, starts, 1)

\* --------------------------------------------------------- _chunk_by_sections
RECURSIVE SectionChunks(_, _, _)
\* the for loop of lines 265-279
SectionChunks(text, matches, i) ==
    IF i > Len(matches) THEN <<>>
    ELSE LET end_pos == IF i < Len(matches) THEN matches[i + 1].start
                        ELSE StrLen(text)
             section_text == Strip(Slice(text, matches[i].start, end_pos))
         IN  (IF StrLen(section_text) > MAX_CHUNK_SIZE
              THEN _split_by_paragraphs(section_text, MAX_CHUNK_SIZE)
              ELSE <<section_text>>)
             \o SectionChunks(text, matches, i + 1)

\* mutant: the text before the first section heading (lines 282-286) forgotten
_chunk_by_sections_no_intro(text) ==
    LET matches == FindIter(section_pattern, 2, text, 1)
    IN  IF Len(matches) = 0 THEN _split_by_paragraphs(text, MAX_CHUNK_SIZE)
        ELSE SectionChunks(text, matches, 1)

\* mutant: the text before the first heading kept from 100 characters on
_chunk_by_sections_intro_ge(text) ==
    LET matches == FindIter(section_pattern, 2, text, 1)
        intro_text == Strip(Slice(text, 0, matches[1].start))
    IN  IF Len(matches) = 0 THEN _split_by_paragraphs(text, MAX_CHUNK_SIZE)
        ELSE (IF intro_text # <<>> /\ StrLen(intro_text) >= NOISE_LEN
              THEN _split_by_paragraphs(intro_text, MAX_CHUNK_SIZE) ELSE <<>>)
             \o SectionChunks(text, matches, 1)

_chunk_by_sections(text) ==
    LET matches == FindIter(section_pattern, 2, text, 1)
        intro_text == Strip(Slice(text, 0, matches[1].start))
    IN  IF Len(matches) = 0 THEN _split_by_paragraphs(text, MAX_CHUNK_SIZE)
        ELSE (IF intro_text # <<>> /\ StrLen(intro_text) > NOISE_LEN
              THEN _split_by_paragraphs(intro_text, MAX_CHUNK_SIZE) ELSE <<>>)
             \o SectionChunks(text, matches, 1)

\* -------------------------------------------------- _handle_non_order_content
\* mutant: the preamble chunks put after the unit chunks
_handle_non_order_content_appended(text, boundaries, existing_chunks) ==
    LET preamble_text == Strip(Slice(text, 0, boundaries[1].start_pos))
    IN  IF Len(boundaries) > 0 /\ preamble_text # <<>>
           /\ StrLen(preamble_text) > NOISE_LEN
        THEN existing_chunks \o _chunk_by_sections(preamble_text)
        ELSE existing_chunks

\* mutant: spans of exactly 100 characters kept
_handle_non_order_content_ge(text, boundaries, existing_chunks) ==
    LET preamble_text == Strip(Slice(text, 0, boundaries[1].start_pos))
        appendix_text ==
            Strip(DropChars(text, boundaries[Len(boundaries)].end_pos))
        with_preamble ==
            IF Len(boundaries) > 0 /\ StrLen(preamble_text) >= NOISE_LEN
            THEN _chunk_by_sections(preamble_text) \o existing_chunks
            ELSE existing_chunks
    IN  IF Len(boundaries) > 0 /\ StrLen(appendix_text) >= NOISE_LEN
        THEN with_preamble \o _chunk_by_sections(appendix_text)
        ELSE with_preamble

_handle_non_order_content(text, boundaries, existing_chunks) ==
    LET preamble_text == Strip(Slice(text, 0, boundaries[1].start_pos))
        appendix_text ==
            Strip(DropChars(text, boundaries[Len(boundaries)].end_pos))
        with_preamble ==
            IF Len(boundaries) > 0 /\ preamble_text # <<>>
               /\ StrLen(preamble_text) > NOISE_LEN
            THEN _chunk_by_sections(preamble_text) \o existing_chunks
            ELSE existing_chunks
    IN  IF Len(boundaries) > 0 /\ appendix_text # <<>>
           /\ StrLen(appendix_text) > NOISE_LEN
        THEN with_preamble \o _chunk_by_sections(appendix_text)
        ELSE with_preamble

\* ------------------------------------------------------ _extract_order_chunks
\* order_text of one boundary (line 139)
OrderText(text, boundary) ==
    Strip(Slice(text, boundary.start_pos, boundary.end_pos))

\* mutant: a unit of exactly RULE_SPLIT_THRESHOLD characters is split too
SplitByRules_ge(order_text) == StrLen(order_text) >= RULE_SPLIT_THRESHOLD

\* the test of line 143
SplitByRules(order_text) == StrLen(order_text) > RULE_SPLIT_THRESHOLD

\* what one iteration of the loop adds to chunks (lines 143-152)
OrderChunks(text, boundary) ==
    LET order_text == OrderText(text, boundary)
    IN  IF SplitByRules(order_text)
        THEN _split_large_order(order_text, boundary.number)
        ELSE <<order_text>>

\* ------------------------------------------------------------ the documents
\* the largest number of ORDER units of a generated document
MaxUnits == 2

FillSeq == <<"~", "*", "@", "%", "&", "!", "?", ";", "/", "=", "+", "_", "|",
             "<", ">", "^">>
\* prose: k filler characters; slot and j choose which, so that the spans of
\* prose of one document differ in their character or their length
Prose(slot, j, k) == <<Run(FillSeq[((3 * slot + j - 1) % 16) + 1], k)>>
NL == Str(<<NLc>>)
SP == Str(<<" ">>)
RomanIds == <<Str(<<"I">>), Str(<<"I", "I">>), Str(<<"I", "I", "I">>),
              Str(<<"I", "V">>)>>
DigitOf == <<"1", "2", "3", "4">>
OrderStr == Str(<<"O", "R", "D", "E", "R">>)
\* "## ORDER II"
HeadMd(u) == Str(<<"#", "#", " ">>) \o OrderStr \o SP \o RomanIds[u]
\* "ORDER II"
HeadPlain(u) == OrderStr \o SP \o RomanIds[u]
\* "## ORDER II - GENERAL"
HeadTitled(u) ==
    HeadMd(u) \o Str(<<" ", "-", " ", "G", "E", "N", "E", "R", "A", "L">>)
HeadOf(style, u) ==
    CASE style = "md" -> HeadMd(u)
      [] style = "plain" -> HeadPlain(u)
      [] style = "titled" -> HeadTitled(u)
\* "Rule 2"
RuleMark(k) == Str(<<"R", "u", "l", "e", " ", DigitOf[k]>>)
\* "## RULES"
RulesHeader == Str(<<"#", "#", " ", "R", "U", "L", "E", "S">>)
\* "2. "
ItemMark(k) == Str(<<DigitOf[k], ".", " ">>)
\* "2. Definitions"
SectionHead(k) ==
    Str(<<DigitOf[k], ".", " ", "D", "e", "f", "i", "n", "i", "t", "i", "o",
          "n", "s">>)

UnitShapes ==
    {"small", "tiny", "rules3", "rules_tail", "paras", "rule_paras", "items",
     "one_para", "at_threshold"}

\* the text below the heading line of a unit of the given shape, in slot u
UnitBody(shape, style, u) ==
    CASE shape = "small" -> Prose(u, 1, 600)
      [] shape = "tiny" -> Prose(u, 1, 200)
      [] shape = "rules3" ->
           Prose(u, 1, 100) \o NL \o RuleMark(1) \o NL \o Prose(u, 2, 2400)
           \o NL \o RuleMark(2) \o NL \o Prose(u, 3, 2400)
           \o NL \o RuleMark(3) \o NL \o Prose(u, 1, 2400)
      [] shape = "rules_tail" ->
           Prose(u, 1, 50) \o NL \o RuleMark(1) \o Str(<<".", " ">>)
           \o Prose(u, 2, 7900) \o NL \o RuleMark(2) \o SP \o Prose(u, 3, 300)
      [] shape = "paras" ->
           Prose(u, 1, 3000) \o NLNL \o Prose(u, 2, 6000)
      [] shape = "rule_paras" ->
           Prose(u, 1, 50) \o NL \o RuleMark(1) \o NL \o Prose(u, 2, 5000)
           \o NLNL \o Prose(u, 3, 4000) \o NL \o RuleMark(2) \o NL
           \o Prose(u, 1, 700)
      [] shape = "items" ->
           Prose(u, 1, 50) \o NL \o RulesHeader \o NL \o ItemMark(1)
           \o Prose(u, 2, 2000) \o NL \o ItemMark(2) \o Prose(u, 3, 2500)
           \o NL \o ItemMark(3) \o Prose(u, 1, 2500)
      [] shape = "one_para" -> Prose(u, 1, 9000)
      [] shape = "at_threshold" ->
           Prose(u, 1, RULE_SPLIT_THRESHOLD - StrLen(HeadOf(style, u)) - 1)
      [] shape = "rules_at_threshold" ->
           Prose(u, 1, 50) \o NL \o RuleMark(1) \o NL \o Prose(u, 2, 2000)
           \o NL \o RuleMark(2) \o NL
           \o Prose(u, 3, RULE_SPLIT_THRESHOLD - StrLen(HeadOf(style, u)) - 2067)
      [] shape = "rule_huge" ->
           Prose(u, 1, 50) \o NL \o RuleMark(1) \o NL \o Prose(u, 2, 8500)
           \o NL \o RuleMark(2) \o NL \o Prose(u, 3, 700)
      [] shape = "rules_and_items" ->
           Prose(u, 1, 50) \o NL \o RuleMark(1) \o NL \o Prose(u, 2, 2500)
           \o NL \o RulesHeader \o NL \o ItemMark(1) \o Prose(u, 3, 1500)
           \o NL \o ItemMark(2) \o Prose(u, 1, 1500)
      [] shape = "header_no_items" ->
           Prose(u, 1, 50) \o NL \o RulesHeader \o NL \o Prose(u, 2, 3000)
           \o NLNL \o Prose(u, 3, 4000)
      [] shape = "items_before" ->
           ItemMark(1) \o Prose(u, 1, 1000) \o NL \o ItemMark(2)
           \o Prose(u, 2, 1000) \o NL \o RulesHeader \o NL \o ItemMark(1)
           \o Prose(u, 3, 1500) \o NL \o ItemMark(2) \o Prose(u, 1, 1500)
           \o NL \o ItemMark(3) \o Prose(u, 2, 1500)

\* one ORDER unit: its heading on a line of its own, then its body
Unit(shape, style, u) ==
    NL \o HeadOf(style, u) \o NL \o UnitBody(shape, style, u)

Preambles ==
    {"none", "short", "long", "sections", "short_intro", "section_first",
     "at_noise", "over_noise"}

\* the text before the first ORDER heading
Preamble(kind) ==
    CASE kind = "none" -> <<>>
      [] kind = "short" -> Prose(0, 1, 40)
      [] kind = "long" -> Prose(0, 1, 600)
      [] kind = "sections" ->
           Prose(0, 1, 150) \o NL \o SectionHead(1) \o NL \o Prose(0, 2, 700)
           \o NL \o SectionHead(2) \o NL \o Prose(0, 3, 300)
      [] kind = "short_intro" ->
           Prose(0, 1, 30) \o NL \o SectionHead(1) \o NL \o Prose(0, 2, 8100)
           \o NLNL \o Prose(0, 3, 100)
      [] kind = "at_noise" -> Prose(0, 1, NOISE_LEN)
      [] kind = "over_noise" -> Prose(0, 1, NOISE_LEN + 1)
      [] kind = "section_first" ->
           SectionHead(1) \o NL \o Prose(0, 1, 60) \o NL \o SectionHead(2)
           \o NL \o Prose(0, 2, 600)

RECURSIVE Units(_, _, _)
\* the units of shapes[u..] in slots u, u+1, ...
Units(shapes, style, u) ==
    IF u > Len(shapes) THEN <<>>
    ELSE Unit(shapes[u], style, u) \o Units(shapes, style, u + 1)

ShapeSeqs == UNION {[1..k -> UnitShapes] : k \in 1..MaxUnits}

\* documents with detected ORDER headings: a preamble, then 1..MaxUnits units
StructuredDocs ==
    {Preamble(p) \o Units(ss, "md", 1) : p \in {"none", "long"}, ss \in ShapeSeqs}
    \cup {Preamble(p) \o Units(ss, "md", 1) :
             p \in Preambles, ss \in [1..1 -> UnitShapes]}
    \cup {Units(ss, st, 1) :
             ss \in [1..1 -> UnitShapes], st \in {"plain", "titled"}}

\* units that are subdivided in the less common ways
SplitShapes ==
    {"rules_at_threshold", "rule_huge", "rules_and_items", "header_no_items",
     "items_before"}
SplitDocs ==
    {Preamble(p) \o Unit(s, "md", 1) : p \in {"none", "long"}, s \in SplitShapes}

\* a unit of 60 characters of prose
MiniUnit(u) == NL \o HeadMd(u) \o NL \o Prose(u, 1, 60)
\* documents shorter than MIN_CHUNK_SIZE
ShortDocs ==
    { MiniUnit(1),
      MiniUnit(1) \o MiniUnit(2),
      MiniUnit(1) \o MiniUnit(2) \o MiniUnit(3),
      Prose(0, 1, 150) \o MiniUnit(1) \o MiniUnit(2),
      Prose(0, 1, 120) \o NL \o SectionHead(1) \o NL \o Prose(0, 2, 110)
      \o MiniUnit(1),
      Prose(0, 1, 100) \o NLNL \o Prose(0, 2, 100) \o NLNL \o Prose(0, 3, 100),
      Prose(0, 1, MIN_CHUNK_SIZE - 1) }

\* documents with no heading that any tier detects
PlainDocs ==
    { <<>>,
      NL \o NL \o NL,
      SP \o NL,
      Prose(0, 1, 300),
      Prose(0, 1, 900) \o NLNL \o Prose(0, 2, 200),
      Prose(0, 1, 1200),
      Prose(0, 1, 400) \o NLNL \o Prose(0, 2, 1500) \o NLNL \o Prose(0, 3, 400),
      Prose(0, 1, 400) \o NLNL \o Prose(0, 2, 400) \o NLNL \o Prose(0, 3, 400),
      NLNL \o NL \o Prose(0, 1, 700) \o NLNL \o NLNL \o Prose(0, 2, 600) \o NL,
      Prose(0, 1, 12000) }

\* "Short Title"
ShortTitle == Str(<<"S", "h", "o", "r", "t", " ", "T", "i", "t", "l", "e">>)
\* documents of n small ORDER units whose first heading is the first line of
\* the text; each later heading directly follows the previous unit's text
\* (joined, as in spec 8 scenario (a)) or starts the next line
HeadFirstDoc(n, joined) ==
    LET U(u) == HeadMd(u) \o NL
                \o (IF u = 1 THEN ShortTitle \o NL ELSE <<>>)
                \o Prose(u, 1, 600)
    IN  IF n = 1 THEN U(1)
        ELSE U(1) \o (IF joined THEN <<>> ELSE NL) \o U(2)
\* the same with a numbered line inside the first unit
HeadFirstNumberedDoc ==
    HeadMd(1) \o NL \o ShortTitle \o NL \o SectionHead(1) \o NL
    \o Prose(1, 1, 600) \o NL \o HeadMd(2) \o NL \o Prose(2, 1, 600)
HeadFirstDocs ==
    {HeadFirstDoc(n, j) : n \in 1..2, j \in BOOLEAN}
    \cup {HeadFirstNumberedDoc, HeadMd(1) \o NL \o UnitBody("rules3", "md", 1)}

\* documents mixing heading styles
MixedDocs ==
    { Unit("small", "md", 1) \o Unit("small", "plain", 2),
      Unit("small", "plain", 1) \o Unit("small", "titled", 2),
      Unit("small", "titled", 1) \o Unit("tiny", "titled", 2),
      Unit("small", "md", 1) \o Unit("small", "titled", 2),
      Unit("small", "titled", 1) \o Unit("small", "plain", 2)
      \o Unit("small", "md", 3) }

\* "SCHEDULE"
ScheduleHead == Str(<<"S", "C", "H", "E", "D", "U", "L", "E">>)
\* a schedule after the last unit: numbered sections, or prose only
Schedule(sectioned) ==
    NLNL \o ScheduleHead \o NL
    \o (IF sectioned
        THEN SectionHead(1) \o NL \o Prose(3, 1, 700) \o NL \o SectionHead(2)
             \o NL \o Prose(3, 2, 300)
        ELSE Prose(3, 1, 600))
\* documents that end with a schedule
ScheduleDocs ==
    { Unit("small", "md", 1) \o Schedule(TRUE),
      Preamble("long") \o Unit("small", "md", 1) \o Unit("tiny", "md", 2)
      \o Schedule(FALSE),
      Unit("rules3", "md", 1) \o Schedule(TRUE) }

Docs ==
    StructuredDocs \cup SplitDocs \cup ShortDocs \cup PlainDocs
    \cup HeadFirstDocs \cup MixedDocs \cup ScheduleDocs

\* --------------------------------------------------------- chunk_document
Init ==
    /\ full_text \in Docs
    /\ pc = "start"
    /\ order_boundaries = <<>>
    /\ chunks = <<>>
    /\ bi = 1
    /\ x_order_text = <<>>
    /\ x_order_num = <<>>
    /\ sub_chunks = <<>>
    /\ x_max_size = 0
    /\ x_validated_chunks = <<>>

\* line 49
Identify ==
    /\ pc = "start"
    /\ order_boundaries' = _identify_order_boundaries(full_text)
    /\ pc' = IF Len(order_boundaries') = 0 THEN "fallback" ELSE "extract"
    /\ UNCHANGED <<full_text, chunks, bi, x_order_text, x_order_num, sub_chunks,
                   x_max_size, x_validated_chunks>>

\* lines 51-53
Fallback ==
    /\ pc = "fallback"
    /\ chunks' = _fallback_chunking(full_text)
    /\ pc' = "done"
    /\ UNCHANGED <<full_text, order_boundaries, bi, x_order_text,
                   x_order_num, sub_chunks, x_max_size,
                   x_validated_chunks>>

\* _extract_order_chunks, one iteration taking the Rule Splitter (lines 143-149)
ExtractSplit ==
    /\ pc = "extract"
    /\ bi <= Len(order_boundaries)
    /\ SplitByRules(OrderText(full_text, order_boundaries[bi]))
    /\ x_order_text' = OrderText(full_text, order_boundaries[bi])
    /\ x_order_num' = order_boundaries[bi].number
    /\ sub_chunks' = _split_large_order(x_order_text', x_order_num')
    /\ chunks' = chunks \o sub_chunks'
    /\ bi' = bi + 1
    /\ UNCHANGED <<full_text, pc, order_boundaries, x_max_size,
                   x_validated_chunks>>

\* mutant: the loop of _extract_order_chunks not moving on to the next boundary
ExtractWhole_no_advance ==
    /\ pc = "extract"
    /\ bi <= Len(order_boundaries)
    /\ ~SplitByRules(OrderText(full_text, order_boundaries[bi]))
    /\ x_order_text' = OrderText(full_text, order_boundaries[bi])
    /\ x_order_num' = order_boundaries[bi].number
    /\ chunks' = Append(chunks, x_order_text')
    /\ UNCHANGED <<full_text, pc, order_boundaries, bi, sub_chunks, x_max_size,
                   x_validated_chunks>>

\* _extract_order_chunks, one iteration keeping the unit whole (lines 150-152)
ExtractWhole ==
    /\ pc = "extract"
    /\ bi <= Len(order_boundaries)
    /\ ~SplitByRules(OrderText(full_text, order_boundaries[bi]))
    /\ x_order_text' = OrderText(full_text, order_boundaries[bi])
    /\ x_order_num' = order_boundaries[bi].number
    /\ chunks' = Append(chunks, x_order_text')
    /\ bi' = bi + 1
    /\ UNCHANGED <<full_text, pc, order_boundaries, sub_chunks, x_max_size,
                   x_validated_chunks>>

\* _extract_order_chunks returns (line 157)
ExtractReturn ==
    /\ pc = "extract"
    /\ bi > Len(order_boundaries)
    /\ pc' = "non_order"
    /\ UNCHANGED <<full_text, order_boundaries, chunks, bi, x_order_text,
                   x_order_num, sub_chunks, x_max_size,
                   x_validated_chunks>>

\* line 61
HandleNonOrder ==
    /\ pc = "non_order"
    /\ chunks' = _handle_non_order_content(full_text, order_boundaries, chunks)
    /\ pc' = "validate"
    /\ UNCHANGED <<full_text, order_boundaries, bi, x_order_text,
                   x_order_num, sub_chunks, x_max_size,
                   x_validated_chunks>>

\* lines 64-69
Validate ==
    /\ pc = "validate"
    /\ chunks' = _validate_and_merge_chunks(chunks)
    /\ pc' = "done"
    /\ UNCHANGED <<full_text, order_boundaries, bi, x_order_text,
                   x_order_num, sub_chunks, x_max_size,
                   x_validated_chunks>>

Next ==
    \/ Identify
    \/ Fallback
    \/ ExtractSplit
    \/ ExtractWhole
    \/ ExtractReturn
    \/ HandleNonOrder
    \/ Validate

Spec == Init /\ [][Next]_vars

\* ------------------------------------------- chunk_document as one function
RECURSIVE _extract_order_chunks(_, _, _)
\* the loop of lines 138-155 from boundary i on
_extract_order_chunks(text, boundaries, i) ==
    IF i > Len(boundaries) THEN <<>>
    ELSE OrderChunks(text, boundaries[i])
         \o _extract_order_chunks(text, boundaries, i + 1)

\* the value one call of chunk_document returns when nothing else runs
chunk_document(text) ==
    LET boundaries == _identify_order_boundaries(text)
    IN  IF Len(boundaries) = 0 THEN _fallback_chunking(text)
        ELSE _validate_and_merge_chunks(
                 _handle_non_order_content(text, boundaries,
                     _extract_order_chunks(text, boundaries, 1)))

\* ------------------------------------- _handle_non_order_content on its own
\* One call of _handle_non_order_content(full_text, order_boundaries, chunks):
\* the boundary list is the detected one or a non-empty prefix of it (the
\* last end_pos then lies before the end of the text), and chunks holds the
\* unit chunks of those boundaries.
HandlerInit ==
    /\ full_text \in {d \in Docs : Len(_identify_order_boundaries(d)) > 0}
    /\ order_boundaries \in
         {SubSeq(_identify_order_boundaries(full_text), 1, k) :
            k \in 1..Len(_identify_order_boundaries(full_text))}
    /\ chunks = _extract_order_chunks(full_text, order_boundaries, 1)
    /\ pc = "non_order"
    /\ bi = Len(order_boundaries) + 1
    /\ x_order_text = <<>>
    /\ x_order_num = <<>>
    /\ sub_chunks = <<>>
    /\ x_max_size = 0
    /\ x_validated_chunks = <<>>

HandlerSpec == HandlerInit /\ [][HandleNonOrder]_vars

\* ------------------------------------------ concurrent calls of chunk_document
\* Several calls of chunk_document run interleaved, each on its own document.
\* Every variable holds one value per call: full_text is the call's argument
\* and the others are locals of the call's frame (the method assigns no
\* attribute of self and no module global).
NumInvocations == 2
Invocations == 1..NumInvocations

\* the documents of the concurrent calls: one per path of chunk_document
ConcurrentDocs ==
    { Prose(0, 1, 900) \o NLNL \o Prose(0, 2, 200),
      Unit("small", "md", 1) \o Unit("tiny", "md", 2),
      Preamble("long") \o Unit("rules3", "md", 1) }

\* mutant: the value is kept in a place all calls share (an attribute of self)
Assign_shared(f, i, v) == [j \in DOMAIN f |-> v]

\* an assignment to a local variable in the frame of call i
Assign(f, i, v) == [f EXCEPT ![i] = v]

ConcInit ==
    /\ full_text \in [Invocations -> ConcurrentDocs]
    /\ pc = [i \in Invocations |-> "start"]
    /\ order_boundaries = [i \in Invocations |-> <<>>]
    /\ chunks = [i \in Invocations |-> <<>>]
    /\ bi = [i \in Invocations |-> 1]
    /\ x_order_text = [i \in Invocations |-> <<>>]
    /\ x_order_num = [i \in Invocations |-> <<>>]
    /\ sub_chunks = [i \in Invocations |-> <<>>]
    /\ x_max_size = [i \in Invocations |-> 0]
    /\ x_validated_chunks = [i \in Invocations |-> <<>>]

\* line 49 in call i
ConcIdentify(i) ==
    /\ pc[i] = "start"
    /\ order_boundaries' =
           Assign(order_boundaries, i, _identify_order_boundaries(full_text[i]))
    /\ pc' = Assign(pc, i, IF Len(order_boundaries'[i]) = 0 THEN "fallback"
                           ELSE "extract")
    /\ UNCHANGED <<full_text, chunks, bi, x_order_text, x_order_num, sub_chunks,
                   x_max_size, x_validated_chunks>>

\* lines 51-53 in call i
ConcFallback(i) ==
    /\ pc[i] = "fallback"
    /\ chunks' = Assign(chunks, i, _fallback_chunking(full_text[i]))
    /\ pc' = Assign(pc, i, "done")
    /\ UNCHANGED <<full_text, order_boundaries, bi, x_order_text,
                   x_order_num, sub_chunks, x_max_size,
                   x_validated_chunks>>

\* lines 143-149 in call i
ConcExtractSplit(i) ==
    /\ pc[i] = "extract"
    /\ bi[i] <= Len(order_boundaries[i])
    /\ SplitByRules(OrderText(full_text[i], order_boundaries[i][bi[i]]))
    /\ x_order_text' =
           Assign(x_order_text, i,
                  OrderText(full_text[i], order_boundaries[i][bi[i]]))
    /\ x_order_num' = Assign(x_order_num, i, order_boundaries[i][bi[i]].number)
    /\ sub_chunks' =
           Assign(sub_chunks, i,
                  _split_large_order(x_order_text'[i], x_order_num'[i]))
    /\ chunks' = Assign(chunks, i, chunks[i] \o sub_chunks'[i])
    /\ bi' = Assign(bi, i, bi[i] + 1)
    /\ UNCHANGED <<full_text, pc, order_boundaries, x_max_size,
                   x_validated_chunks>>

\* lines 150-152 in call i
ConcExtractWhole(i) ==
    /\ pc[i] = "extract"
    /\ bi[i] <= Len(order_boundaries[i])
    /\ ~SplitByRules(OrderText(full_text[i], order_boundaries[i][bi[i]]))
    /\ x_order_text' =
           Assign(x_order_text, i,
                  OrderText(full_text[i], order_boundaries[i][bi[i]]))
    /\ x_order_num' = Assign(x_order_num, i, order_boundaries[i][bi[i]].number)
    /\ chunks' = Assign(chunks, i, Append(chunks[i], x_order_text'[i]))
    /\ bi' = Assign(bi, i, bi[i] + 1)
    /\ UNCHANGED <<full_text, pc, order_boundaries, sub_chunks, x_max_size,
                   x_validated_chunks>>

\* line 157 in call i
ConcExtractReturn(i) ==
    /\ pc[i] = "extract"
    /\ bi[i] > Len(order_boundaries[i])
    /\ pc' = Assign(pc, i, "non_order")
    /\ UNCHANGED <<full_text, order_boundaries, chunks, bi, x_order_text,
                   x_order_num, sub_chunks, x_max_size,
                   x_validated_chunks>>

\* line 61 in call i
ConcHandleNonOrder(i) ==
    /\ pc[i] = "non_order"
    /\ chunks' =
           Assign(chunks, i,
                  _handle_non_order_content(full_text[i], order_boundaries[i],
                                            chunks[i]))
    /\ pc' = Assign(pc, i, "validate")
    /\ UNCHANGED <<full_text, order_boundaries, bi, x_order_text,
                   x_order_num, sub_chunks, x_max_size,
                   x_validated_chunks>>

\* lines 64-69 in call i
ConcValidate(i) ==
    /\ pc[i] = "validate"
    /\ chunks' = Assign(chunks, i, _validate_and_merge_chunks(chunks[i]))
    /\ pc' = Assign(pc, i, "done")
    /\ UNCHANGED <<full_text, order_boundaries, bi, x_order_text,
                   x_order_num, sub_chunks, x_max_size,
                   x_validated_chunks>>

ConcNext ==
    \E i \in Invocations :
        \/ ConcIdentify(i)
        \/ ConcFallback(i)
        \/ ConcExtractSplit(i)
        \/ ConcExtractWhole(i)
        \/ ConcExtractReturn(i)
        \/ ConcHandleNonOrder(i)
        \/ ConcValidate(i)

ConcSpec == ConcInit /\ [][ConcNext]_vars

\* --------------------------------------------- _chunk_by_sections on its own
\* One call of _chunk_by_sections(full_text).  Its callers (lines 230 and 246)
\* pass a stripped span of more than 100 characters: some lead-in text, then
\* sections, each a numbered heading on a line of its own and a body.
MaxSections == 2

\* "Section 2: Scope"
SectionLabel(k) ==
    Str(<<"S", "e", "c", "t", "i", "o", "n", " ", DigitOf[k], ":", " ", "S",
          "c", "o", "p", "e">>)

SectionKinds == {"short", "labelled", "blank_lines", "paragraphs", "one_para"}

\* the section in slot k: a line break, the heading line and the body
Section(kind, k) ==
    CASE kind = "short" -> NL \o SectionHead(k) \o NL \o Prose(k, 1, 300)
      [] kind = "labelled" -> NL \o SectionLabel(k) \o NL \o Prose(k, 1, 700)
      [] kind = "blank_lines" ->
           NLNL \o SectionHead(k) \o NL \o Prose(k, 1, 300) \o NLNL \o NL
           \o Prose(k, 2, 300)
      [] kind = "paragraphs" ->
           NL \o SectionHead(k) \o NL \o Prose(k, 1, 4000) \o NLNL
           \o Prose(k, 2, 4100)
      [] kind = "one_para" -> NL \o SectionHead(k) \o NL \o Prose(k, 1, 8100)

LeadIns == {"none", "short", "at_noise", "over_noise", "long", "paragraphs"}

\* the text before the first section
LeadIn(kind) ==
    CASE kind = "none" -> <<>>
      [] kind = "short" -> Prose(0, 1, 30)
      [] kind = "at_noise" -> Prose(0, 1, NOISE_LEN)
      [] kind = "over_noise" -> Prose(0, 1, NOISE_LEN + 1)
      [] kind = "long" -> Prose(0, 1, 600)
      [] kind = "paragraphs" -> Prose(0, 1, 5000) \o NLNL \o Prose(0, 2, 5000)

SectionKindSeqs ==
    UNION {[1..n -> SectionKinds] : n \in 0..MaxSections}

SectionTexts ==
    {t \in {Strip(LeadIn(l)
                  \o Concat([k \in 1..Len(ks) |-> Section(ks[k], k)])) :
              l \in LeadIns, ks \in SectionKindSeqs} :
       StrLen(t) > NOISE_LEN}

SectionInit ==
    /\ full_text \in SectionTexts
    /\ pc = "sections"
    /\ order_boundaries = <<>>
    /\ chunks = <<>>
    /\ bi = 1
    /\ x_order_text = <<>>
    /\ x_order_num = <<>>
    /\ sub_chunks = <<>>
    /\ x_max_size = 0
    /\ x_validated_chunks = <<>>

\* lines 250-288
ChunkBySections ==
    /\ pc = "sections"
    /\ chunks' = _chunk_by_sections(full_text)
    /\ pc' = "done"
    /\ UNCHANGED <<full_text, order_boundaries, bi, x_order_text,
                   x_order_num, sub_chunks, x_max_size,
                   x_validated_chunks>>

SectionSpec == SectionInit /\ [][ChunkBySections]_vars

\* -------------------------------------------- _split_by_paragraphs on its own
\* One call of _split_by_paragraphs(full_text, x_max_size): the text is a list
\* of paragraphs separated by blank lines, the bound one of the two the
\* program passes (lines 261, 276, 285, 205 and 356).
MaxParas == 3

ParaKinds ==
    {"blank", "short", "padded", "fit", "nofit", "big", "bigfit", "huge"}

\* the paragraph in slot k
Para(kind, k) ==
    CASE kind = "blank" -> SP \o SP
      [] kind = "short" -> Prose(k, 1, 300)
      [] kind = "padded" -> NL \o Prose(k, 1, 600) \o SP
      [] kind = "fit" -> Prose(k, 1, FALLBACK_SIZE - 302)
      [] kind = "nofit" -> Prose(k, 1, FALLBACK_SIZE - 301)
      [] kind = "big" -> Prose(k, 1, 4000)
      [] kind = "bigfit" -> Prose(k, 1, MAX_CHUNK_SIZE - 4002)
      [] kind = "huge" -> Prose(k, 1, 8500)

\* '\n\n'.join(xs)
JoinParas(xs) ==
    Concat([i \in 1..Len(xs) |-> IF i = 1 THEN xs[i] ELSE NLNL \o xs[i]])

ParaKindSeqs == UNION {[1..n -> ParaKinds] : n \in 0..MaxParas}

ParaTexts ==
    {JoinParas([k \in 1..Len(ks) |-> Para(ks[k], k)]) : ks \in ParaKindSeqs}

ParagraphBounds == {FALLBACK_SIZE, MAX_CHUNK_SIZE}

ParagraphInit ==
    /\ full_text \in ParaTexts
    /\ x_max_size \in ParagraphBounds
    /\ x_validated_chunks = <<>>
    /\ pc = "paragraphs"
    /\ order_boundaries = <<>>
    /\ chunks = <<>>
    /\ bi = 1
    /\ x_order_text = <<>>
    /\ x_order_num = <<>>
    /\ sub_chunks = <<>>

\* lines 290-313
SplitByParagraphs ==
    /\ pc = "paragraphs"
    /\ chunks' = _split_by_paragraphs(full_text, x_max_size)
    /\ pc' = "done"
    /\ UNCHANGED <<full_text, order_boundaries, bi, x_order_text,
                   x_order_num, sub_chunks, x_max_size,
                   x_validated_chunks>>

ParagraphSpec == ParagraphInit /\ [][SplitByParagraphs]_vars

\* ------------------------------------- _validate_and_merge_chunks on its own
\* One call of _validate_and_merge_chunks(chunks), its result kept in
\* x_validated_chunks.  The function reads its argument and builds a new list
\* (lines 319, 338, 340, 347): chunks itself is left as it was.
MaxChunks == 4

ChunkKinds == {"blank", "tiny", "near", "exact", "big"}

\* the chunk in slot k
ChunkOf(kind, k) ==
    CASE kind = "blank" -> SP \o NL \o SP
      [] kind = "tiny" -> Prose(k, 1, 200)
      [] kind = "near" -> Prose(k, 1, MIN_CHUNK_SIZE - 1)
      [] kind = "exact" -> Prose(k, 1, MIN_CHUNK_SIZE)
      [] kind = "big" -> Prose(k, 1, 900)

ChunkLists ==
    {[k \in 1..Len(ks) |-> ChunkOf(ks[k], k)] :
       ks \in UNION {[1..n -> ChunkKinds] : n \in 0..MaxChunks}}

ValidatorInit ==
    /\ chunks \in ChunkLists
    /\ pc = "validator"
    /\ full_text = <<>>
    /\ order_boundaries = <<>>
    /\ bi = 1
    /\ x_order_text = <<>>
    /\ x_order_num = <<>>
    /\ sub_chunks = <<>>
    /\ x_max_size = 0
    /\ x_validated_chunks = <<>>

\* lines 315-349
ValidateAndMerge ==
    /\ pc = "validator"
    /\ x_validated_chunks' = _validate_and_merge_chunks(chunks)
    /\ pc' = "done"
    /\ UNCHANGED <<full_text, order_boundaries, chunks, bi, x_order_text,
                   x_order_num, sub_chunks, x_max_size>>

ValidatorSpec == ValidatorInit /\ [][ValidateAndMerge]_vars

\* ===================================================================== claims
\* helpers of the claims' formulas
StartsWith(s, pat) == Len(s) >= Len(pat) /\ SubSeq(s, 1, Len(pat)) = pat

Contains(s, pat) ==
    \E i \in 1..(Len(s) - Len(pat) + 1) : SubSeq(s, i, i + Len(pat) - 1) = pat

\* s without the occurrences of pat (which do not overlap one another)
RemoveAll(s, pat) ==
    LET occ == {i \in 1..(Len(s) - Len(pat) + 1) :
                   SubSeq(s, i, i + Len(pat) - 1) = pat}
        keep == {j \in 1..Len(s) : \A i \in occ : j < i \/ j >= i + Len(pat)}
        kept == SelectSeq([j \in 1..Len(s) |-> <<j, s[j]>>],
                          LAMBDA x : x[1] \in keep)
    IN  [j \in 1..Len(kept) |-> kept[j][2]]

RECURSIVE RemoveContinued(_, _, _)
\* s without the synthetic "ORDER <id> (continued)" lines of boundaries[i..]
RemoveContinued(s, boundaries, i) ==
    IF i > Len(boundaries) THEN s
    ELSE RemoveContinued(RemoveAll(s, ContinuedLine(boundaries[i].number)),
                         boundaries, i + 1)

\* whitespace normalization: the non-whitespace characters of s
NoSpace(s) == SelectSeq(s, LAMBDA x : ~IsSpace(x))

\* the document content carried by a chunk list
ChunkContent(cs, boundaries) == NoSpace(RemoveContinued(Concat(cs), boundaries, 1))

RECURSIVE Embed(_, _, _, _, _)
\* the index of b behind the leftmost embedding of a[lo..hi] into b from index
\* p on, 0 if there is none
Embed(a, lo, hi, b, p) ==
    IF lo > hi THEN p
    ELSE IF lo = hi
    THEN IF \E j \in p..Len(b) : b[j] = a[lo]
         THEN 1 + CHOOSE j \in p..Len(b) :
                      b[j] = a[lo] /\ \A k \in p..(j - 1) : b[k] # a[lo]
         ELSE 0
    ELSE LET q == Embed(a, lo, (lo + hi) \div 2, b, p)
         IN  IF q = 0 THEN 0 ELSE Embed(a, (lo + hi) \div 2 + 1, hi, b, q)

\* a is b with some symbols left out, the others in their order
IsSubsequence(a, b) == Embed(a, 1, Len(a), b, 1) # 0

IsSingleParagraph(s) == Len(SplitParas(s, 1, <<>>)) = 1

Returned == pc = "done"
StructuredPath == Len(order_boundaries) > 0

\* C1 (as claimed): whenever chunk_document returns more than one chunk, every
\* returned chunk has length >= MIN_CHUNK_SIZE, on the structured path and on
\* the no-ORDER fallback path.
C1_SizeFloor ==
    (Returned /\ Len(chunks) > 1)
    => \A i \in 1..Len(chunks) : StrLen(chunks[i]) >= MIN_CHUNK_SIZE

\* C2 (as claimed): every chunk returned by chunk_document has length
\* <= MAX_CHUNK_SIZE unless it is a single blank-line-delimited paragraph that
\* is itself longer than MAX_CHUNK_SIZE.
C2_SizeCeiling ==
    Returned
    => \A i \in 1..Len(chunks) :
         StrLen(chunks[i]) <= MAX_CHUNK_SIZE \/ IsSingleParagraph(chunks[i])

\* C3 (as claimed): the returned chunks, without the synthetic continuation
\* lines and up to whitespace, reproduce the whole document: nothing is
\* dropped and nothing appears twice.
C3_NoLoss_Original ==
    Returned => ChunkContent(chunks, order_boundaries) = NoSpace(full_text)

\* the part of the document that chunk_document keeps: everything from the
\* first ORDER boundary on, and of the text before it (stripped) nothing if it
\* has at most NOISE_LEN characters, else all of it except a lead-in of at most
\* NOISE_LEN characters before its first section heading
KeptPreamble(text, boundaries) ==
    LET preamble_text == Strip(Slice(text, 0, boundaries[1].start_pos))
        matches == FindIter(section_pattern, 2, preamble_text, 1)
    IN  IF StrLen(preamble_text) <= NOISE_LEN THEN <<>>
        ELSE IF Len(matches) > 0
                /\ StrLen(Strip(Slice(preamble_text, 0, matches[1].start)))
                     <= NOISE_LEN
        THEN DropChars(preamble_text, matches[1].start)
        ELSE preamble_text

KeptText(text, boundaries) ==
    IF Len(boundaries) = 0 THEN text
    ELSE KeptPreamble(text, boundaries)
         \o DropChars(text, boundaries[1].start_pos)

\* C3 (amended): the returned chunks, without the synthetic continuation lines
\* and up to whitespace, reproduce the document except for the spans the
\* noise rule discards: a text before the first ORDER heading of at most 100
\* characters, and a lead-in of at most 100 characters before the first section
\* heading of a longer one.  Nothing else is dropped, nothing appears twice.
C3_NoLoss ==
    Returned
    => ChunkContent(chunks, order_boundaries)
         = NoSpace(KeptText(full_text, order_boundaries))

\* C3 witness: a returned structured result whose preamble went through the
\* Section Splitter and whose unit was subdivided with continuation lines
C3_Witness ==
    /\ Returned /\ StructuredPath
    /\ order_boundaries[1].start_pos > NOISE_LEN
    /\ Len(sub_chunks) > 1
    /\ Contains(Concat(chunks), ContinuedLine(x_order_num))

\* C4: the content of the returned chunks appears in the document's order: the
\* returned content (synthetic lines removed) is the document's content with
\* some spans left out and the others in their original order.
C4_Ordering ==
    Returned
    => IsSubsequence(ChunkContent(chunks, order_boundaries), NoSpace(full_text))

\* C4 witness: a returned result with preamble chunks before the unit chunks
C4_Witness ==
    /\ Returned /\ StructuredPath
    /\ order_boundaries[1].start_pos > NOISE_LEN
    /\ Len(chunks) >= 3

\* C5 (as claimed): every non-empty document without a detected ORDER heading
\* yields a non-empty chunk list.
C5_Fallback_Original ==
    (Returned /\ ~StructuredPath /\ full_text # <<>>) => Len(chunks) > 0

\* C5 (amended): every document without a detected ORDER heading that holds at
\* least one non-whitespace character yields a non-empty chunk list, the
\* Paragraph Splitter's result for the whole text with bound 1000.
C5_Fallback ==
    (Returned /\ ~StructuredPath /\ Strip(full_text) # <<>>)
    => /\ Len(chunks) > 0
       /\ NoSpace(Concat(chunks)) = NoSpace(full_text)

\* C5 witness: a returned fallback result of several chunks
C5_Witness ==
    Returned /\ ~StructuredPath /\ Strip(full_text) # <<>> /\ Len(chunks) > 1

\* C6 (as claimed): every chunk _split_large_order produces for a unit holds,
\* verbatim, the unit's heading or the line "ORDER <id> (continued)".
C6_ContextPrefix ==
    (bi > 1 /\ StrLen(x_order_text) > RULE_SPLIT_THRESHOLD)
    => \A i \in 1..Len(sub_chunks) :
         \/ Contains(sub_chunks[i], order_boundaries[bi - 1].full_heading)
         \/ Contains(sub_chunks[i], ContinuedLine(x_order_num))

\* C7: in the list _identify_order_boundaries returns, start_pos increases
\* strictly, each end_pos is the next record's start_pos, and the last end_pos
\* is len(text).
C7_BoundaryPartition ==
    pc # "start"
    => /\ \A i \in 1..(Len(order_boundaries) - 1) :
            /\ order_boundaries[i].start_pos < order_boundaries[i + 1].start_pos
            /\ order_boundaries[i].end_pos = order_boundaries[i + 1].start_pos
       /\ StructuredPath
            => order_boundaries[Len(order_boundaries)].end_pos
                 = StrLen(full_text)

\* C7 witness: a detection pass that found several units after a preamble
C7_Witness ==
    /\ pc = "extract"
    /\ Len(order_boundaries) >= 2
    /\ order_boundaries[1].start_pos > 0

\* C8: no returned chunk is empty or whitespace-only, on either path.
C8_NonEmpty ==
    Returned => \A i \in 1..Len(chunks) : Strip(chunks[i]) # <<>>

\* C8 witness: a returned result for a text that has blank paragraphs
C8_Witness ==
    /\ Returned /\ Len(chunks) >= 2
    /\ \E k \in 1..Len(SplitParas(full_text, 1, <<>>)) :
         Strip(SplitParas(full_text, 1, <<>>)[k]) = <<>>

\* C9 (as claimed): a document of n consecutive small ORDER units, the first
\* heading at offset 0, each unit at least MIN_CHUNK_SIZE long, yields n chunks,
\* chunk u beginning with the heading of unit u.
C9_ScenarioA ==
    \A n \in 1..2 :
      (Returned /\ full_text \in ({HeadFirstDoc(n, j) : j \in BOOLEAN}
                                   \cup (IF n = 2 THEN {HeadFirstNumberedDoc}
                                         ELSE {})))
      => /\ Len(chunks) = n
         /\ \A u \in 1..n : StartsWith(chunks[u], HeadMd(u))

\* the per-rule chunk lengths of the unit of the last iteration
RuleChunkLens(text, num) ==
    LET starts == RuleStarts(text)
    IN  [i \in 1..Len(starts) |-> StrLen(RuleChunkText(text, num, starts, i))]

\* a returned document that is one detected ORDER unit, longer than
\* RULE_SPLIT_THRESHOLD, holding n >= 1 "Rule k" markers
SingleRuleUnit(n) ==
    /\ Returned /\ Len(order_boundaries) = 1
    /\ order_boundaries[1].start_pos = 0
    /\ StrLen(x_order_text) > RULE_SPLIT_THRESHOLD
    /\ n >= 1
    /\ Len(FindIter(rule_pattern, 2, x_order_text, 1)) = n

\* n chunks, each after the first beginning with the continuation line
NumberedContinued(n) ==
    /\ Len(chunks) = n
    /\ \A i \in 2..n : StartsWith(chunks[i], ContinuedLine(x_order_num) \o NLNL)

ShortInput == StrLen(full_text) < MIN_CHUNK_SIZE

\* the guards of the steps of chunk_document: some step can be taken
StepEnabled ==
    \/ pc \in {"start", "fallback", "non_order", "validate"}
    \/ pc = "extract" /\ bi <= Len(order_boundaries) + 1

\* C11: for an input shorter than MIN_CHUNK_SIZE (the empty string and
\* whitespace-only strings included) chunk_document runs to its return, no
\* step of it failing, and returns the empty list or a list of one chunk.
C11_ShortInput ==
    ShortInput
    => /\ ~Returned => StepEnabled
       /\ Returned => Len(chunks) <= 1

\* C11 witness: a text shorter than MIN_CHUNK_SIZE in which several units and a
\* preamble were found, returned as one chunk
C11_Witness ==
    /\ Returned /\ ShortInput
    /\ Len(order_boundaries) >= 2
    /\ order_boundaries[1].start_pos > NOISE_LEN
    /\ Len(chunks) = 1

\* the frame of call i: its argument and its locals
Frame(i) ==
    <<full_text[i], pc[i], order_boundaries[i], chunks[i], bi[i],
      x_order_text[i], x_order_num[i], sub_chunks[i]>>

\* C12: under any interleaving of calls of chunk_document on their own
\* documents, every call returns exactly the list it returns when it runs
\* alone, a function of its text and the size constants only, and no step of
\* one call changes anything another call holds.
C12_Independence ==
    /\ [](\A i \in Invocations :
            pc[i] = "done" => chunks[i] = chunk_document(full_text[i]))
    /\ [][\E i \in Invocations :
            \A j \in Invocations \ {i} : Frame(j)' = Frame(j)]_vars

\* C12 witness: two calls on different documents, one on the structured path
\* and one on the fallback path, both returned
C12_Witness ==
    /\ \A i \in Invocations : pc[i] = "done"
    /\ \E i, j \in Invocations :
         /\ Len(order_boundaries[i]) > 0 /\ Len(sub_chunks[i]) > 1
         /\ Len(order_boundaries[j]) = 0 /\ Len(chunks[j]) > 1

\* C13: when no ORDER boundary is detected, chunk_document returns exactly
\* _split_by_paragraphs(full_text, 1000); the non-ORDER handler and the
\* validator are not reached on this path; every returned chunk has at most
\* 1000 characters unless it is a single paragraph longer than 1000.
C13_DocumentFallback ==
    /\ pc \in {"extract", "non_order", "validate"} => StructuredPath
    /\ (Returned /\ ~StructuredPath)
       => /\ chunks = _split_by_paragraphs(full_text, FALLBACK_SIZE)
          /\ \A i \in 1..Len(chunks) :
               \/ StrLen(chunks[i]) <= FALLBACK_SIZE
               \/ IsSingleParagraph(chunks[i])

\* C13 witness: a fallback result of several chunks, one of them a single
\* paragraph longer than the bound, another one under-sized
C13_Witness ==
    /\ Returned /\ ~StructuredPath
    /\ Len(chunks) >= 3
    /\ \E i \in 1..Len(chunks) : StrLen(chunks[i]) > FALLBACK_SIZE
    /\ \E i \in 1..Len(chunks) : StrLen(chunks[i]) < MIN_CHUNK_SIZE

RECURSIVE DispatchedChunks(_)
\* what the claimed dispatch yields for the first k units, in boundary order
DispatchedChunks(k) ==
    IF k = 0 THEN <<>>
    ELSE LET span == OrderText(full_text, order_boundaries[k])
         IN  DispatchedChunks(k - 1)
             \o (IF StrLen(span) > RULE_SPLIT_THRESHOLD
                 THEN _split_large_order(span, order_boundaries[k].number)
                 ELSE <<span>>)

\* C14: _extract_order_chunks handles the units in boundary order; a unit's
\* span goes to _split_large_order if and only if it is strictly longer than
\* RULE_SPLIT_THRESHOLD, and otherwise (a span of exactly the threshold
\* included) is appended as one chunk.
C14_Dispatch ==
    pc \in {"extract", "non_order"}
    => /\ bi - 1 <= Len(order_boundaries)
       /\ chunks = DispatchedChunks(bi - 1)
       /\ bi > 1 => x_order_text = OrderText(full_text, order_boundaries[bi - 1])
       /\ sub_chunks # <<>>
            <=> \E i \in 1..(bi - 1) :
                  StrLen(OrderText(full_text, order_boundaries[i]))
                    > RULE_SPLIT_THRESHOLD

\* C14 witness: the loop has finished on a unit of exactly RULE_SPLIT_THRESHOLD
\* characters that holds Rule markers, kept as one chunk
C14_Witness ==
    /\ pc = "non_order"
    /\ StrLen(x_order_text) = RULE_SPLIT_THRESHOLD
    /\ Len(RuleStarts(x_order_text)) >= 2
    /\ chunks = <<x_order_text>>

\* the stripped span before the first boundary and after the last one's end
PreambleSpan == Strip(Slice(full_text, 0, order_boundaries[1].start_pos))
AppendixSpan ==
    Strip(DropChars(full_text, order_boundaries[Len(order_boundaries)].end_pos))

\* C15: called with a non-empty boundary list, _handle_non_order_content puts
\* the Section Splitter's chunks of the span before the first boundary in
\* front of the unit chunks and those of the span after the last boundary's
\* end behind them, each if and only if the stripped span is longer than 100
\* characters; the unit chunks stay as they are, in their order; a span of 100
\* characters or fewer adds no chunk.
C15_NonStructural ==
    [][(pc = "non_order" /\ pc' = "validate")
       => chunks' =
            (IF StrLen(PreambleSpan) > NOISE_LEN
             THEN _chunk_by_sections(PreambleSpan) ELSE <<>>)
            \o chunks
            \o (IF StrLen(AppendixSpan) > NOISE_LEN
                THEN _chunk_by_sections(AppendixSpan) ELSE <<>>)]_vars

\* C15 witness: the handler has run on a text with more than 100 characters
\* before the first boundary and more than 100 after the last one's end
C15_Witness ==
    /\ pc = "validate"
    /\ StrLen(PreambleSpan) > NOISE_LEN
    /\ StrLen(AppendixSpan) > NOISE_LEN
    /\ Len(chunks) >= 3

\* start() and group(1) of each match of a list
MatchKeys(ms) == [i \in 1..Len(ms) |-> <<ms[i].start, ms[i].groups[1]>>]
\* start_pos and number of each record of the boundary list
BoundaryKeys ==
    [i \in 1..Len(order_boundaries) |->
       <<order_boundaries[i].start_pos, order_boundaries[i].number>>]
\* the matches of tier k over the whole document
Tier(k) ==
    CASE k = 1 -> FindIter(order_pattern_1, 1, full_text, 1)
      [] k = 2 -> FindIter(order_pattern_2, 1, full_text, 1)
      [] k = 3 -> FindIter(order_pattern_3, 2, full_text, 1)

\* C16: the boundary list is built from the matches of one tier only, the
\* first of markdown heading, plain heading, heading with title that has a
\* match; matches of later tiers are not added; the list is empty exactly when
\* no tier has a match.  (Stated where _identify_order_boundaries has just
\* returned; the list is not assigned again.)
C16_DetectorCascade ==
    (pc \in {"fallback", "extract"} /\ bi = 1)
    => LET tiers == [k \in 1..3 |-> Tier(k)]
       IN  /\ \A k \in 1..3 :
                (Len(tiers[k]) > 0 /\ \A j \in 1..(k - 1) : Len(tiers[j]) = 0)
                => BoundaryKeys = MatchKeys(tiers[k])
           /\ Len(order_boundaries) = 0 <=> \A k \in 1..3 : Len(tiers[k]) = 0

\* C16 witness: a detection on a text in which every tier has matches
C16_Witness ==
    /\ pc = "extract"
    /\ \A k \in 1..3 : Len(Tier(k)) > 0
    /\ Len(order_boundaries) = Len(Tier(1))

\* the last iteration of _extract_order_chunks has just called
\* _split_large_order: sub_chunks is its result for (x_order_text, x_order_num)
RuleSplitterReturned ==
    pc = "extract" /\ bi > 1 /\ StrLen(x_order_text) > RULE_SPLIT_THRESHOLD

\* a chunk, or the Paragraph Splitter's pieces of it if it is over-sized
Pieces(chunk) ==
    IF StrLen(chunk) > MAX_CHUNK_SIZE
    THEN _split_by_paragraphs(chunk, MAX_CHUNK_SIZE) ELSE <<chunk>>

RECURSIVE Spliced(_, _)
\* the pieces of built[i..], each chunk's pieces in the chunk's place
Spliced(built, i) ==
    IF i > Len(built) THEN <<>> ELSE Pieces(built[i]) \o Spliced(built, i + 1)

\* the per-sub-unit chunks (prefix plus sub-unit text) of the last unit
BuiltChunks ==
    LET starts == RuleStarts(x_order_text)
    IN  [i \in 1..Len(starts) |->
           RuleChunkText(x_order_text, x_order_num, starts, i)]

\* C17 (as claimed): every chunk of the list _split_large_order returns has
\* length <= MAX_CHUNK_SIZE.
C17_RuleSizeBound_Original ==
    RuleSplitterReturned
    => \A i \in 1..Len(sub_chunks) : StrLen(sub_chunks[i]) <= MAX_CHUNK_SIZE

\* C17 (amended): in the list _split_large_order returns, every per-sub-unit
\* chunk longer than MAX_CHUNK_SIZE is replaced in place, order kept, by
\* _split_by_paragraphs(chunk, MAX_CHUNK_SIZE), and every chunk of the list has
\* length <= MAX_CHUNK_SIZE unless it is a single paragraph longer than that.
C17_RuleSizeBound ==
    RuleSplitterReturned
    => /\ Len(BuiltChunks) > 0 => sub_chunks = Spliced(BuiltChunks, 1)
       /\ \A i \in 1..Len(sub_chunks) :
            \/ StrLen(sub_chunks[i]) <= MAX_CHUNK_SIZE
            \/ IsSingleParagraph(sub_chunks[i])

\* C17 witness: a unit of several sub-units one of whose chunks was over-sized
\* and was replaced by several pieces
C17_Witness ==
    /\ RuleSplitterReturned
    /\ Len(BuiltChunks) >= 2
    /\ \E i \in 1..Len(BuiltChunks) : StrLen(BuiltChunks[i]) > MAX_CHUNK_SIZE
    /\ Len(sub_chunks) > Len(BuiltChunks)

\* the number of matches of the "Rule N" tier in the last unit
RuleTierMatches == Len(FindIter(rule_pattern, 2, x_order_text, 1))

\* C18: the chunks _split_large_order returns, put together in order with the
\* synthetic "ORDER <id> (continued)" lines and the joiners removed, are the
\* unit's text up to whitespace: the header and every sub-unit span occur
\* once, nothing is lost and nothing occurs twice, on the Rule-marker tier, on
\* the RULES/numbered-item tier and on the paragraph path.
C18_RuleCoverage ==
    RuleSplitterReturned
    => NoSpace(RemoveAll(Concat(sub_chunks), ContinuedLine(x_order_num)))
         = NoSpace(x_order_text)

\* C18 witness: a unit divided at numbered items under a RULES header, its
\* later chunks carrying the continuation line
C18_Witness ==
    /\ RuleSplitterReturned
    /\ RuleTierMatches = 0
    /\ Len(RuleStarts(x_order_text)) >= 2
    /\ Len(sub_chunks) >= 2
    /\ Contains(Concat(sub_chunks), ContinuedLine(x_order_num))

\* the stripped text of sub-unit i of the last unit, from its sub-boundary to
\* the next one (to the end of the unit for the last)
SubUnitText(i) ==
    LET starts == RuleStarts(x_order_text)
    IN  IF i > Len(starts) THEN <<>>
        ELSE Strip(Slice(x_order_text, starts[i],
                         IF i < Len(starts) THEN starts[i + 1]
                         ELSE StrLen(x_order_text)))

\* the stripped text of the last unit before its first sub-boundary
HeaderText ==
    LET starts == RuleStarts(x_order_text)
    IN  IF Len(starts) = 0 THEN <<>>
        ELSE Strip(Slice(x_order_text, 0, starts[1]))

\* the chunks the claimed prefix policy builds for the sub-units
PrefixedChunks ==
    [i \in 1..Len(RuleStarts(x_order_text)) |->
       IF i = 1 THEN HeaderText \o NLNL \o SubUnitText(1)
       ELSE ContinuedLine(x_order_num) \o NLNL \o SubUnitText(i)]

\* C19: when _split_large_order finds k >= 1 sub-boundaries, the chunk of the
\* first sub-unit is the unit's header text followed by the sub-unit's text,
\* the chunk of every later sub-unit is the line "ORDER <id> (continued)"
\* followed by that sub-unit's text, and the header is put on no other chunk;
\* the returned list is made of these chunks (each one's paragraph pieces in
\* its place if it is over-sized).
C19_PrefixPolicy ==
    (RuleSplitterReturned /\ Len(RuleStarts(x_order_text)) >= 1)
    => sub_chunks = Spliced(PrefixedChunks, 1)

\* C19 witness: a unit of three sub-units returned as three chunks, the first
\* beginning with the unit's heading, the others with the continuation line
C19_Witness ==
    /\ RuleSplitterReturned
    /\ Len(RuleStarts(x_order_text)) = 3
    /\ Len(sub_chunks) = 3
    /\ StartsWith(sub_chunks[1], order_boundaries[bi - 1].full_heading)
    /\ \A i \in 2..3 :
         StartsWith(sub_chunks[i], ContinuedLine(x_order_num) \o NLNL)

\* start() of each match of a list
MatchStarts(ms) == [i \in 1..Len(ms) |-> ms[i].start]
\* the matches of the RULES header in the last unit
RulesMarker == FindIter(rules_header_pattern, 0, x_order_text, 1)
\* the numbered items found in the text after the first RULES marker, at
\* offsets of the whole unit text
ItemStarts ==
    LET found == FindIter(numbered_pattern, 1,
                          DropChars(x_order_text, RulesMarker[1].end), 1)
    IN  [i \in 1..Len(found) |-> RulesMarker[1].end + found[i].start]

\* C20: _split_large_order uses the "Rule N" matches alone if there is any;
\* only without one it uses the numbered items after the RULES marker, whose
\* sub-boundaries are offsets of the unit text at or after the marker's end;
\* it returns _split_by_paragraphs(order_text, MAX_CHUNK_SIZE) of the whole
\* unit text exactly when neither tier gives a sub-boundary.
C20_RuleCascade ==
    RuleSplitterReturned
    => LET rule_starts ==
               MatchStarts(FindIter(rule_pattern, 2, x_order_text, 1))
           item_starts == IF Len(RulesMarker) > 0 THEN ItemStarts ELSE <<>>
       IN  /\ Len(rule_starts) > 0
                => sub_chunks = RuleChunks(x_order_text, x_order_num,
                                           rule_starts, 1)
           /\ Len(rule_starts) = 0
                => /\ \A i \in 1..Len(item_starts) :
                        /\ item_starts[i] >= RulesMarker[1].end
                        /\ item_starts[i] < StrLen(x_order_text)
                   /\ Len(item_starts) > 0
                        => sub_chunks = RuleChunks(x_order_text, x_order_num,
                                                   item_starts, 1)
                   /\ Len(item_starts) = 0
                        => sub_chunks = _split_by_paragraphs(x_order_text,
                                                            MAX_CHUNK_SIZE)

\* C20 witness: a unit without "Rule N" marker, with numbered items before and
\* after its RULES marker, divided at the items after the marker
C20_Witness ==
    /\ RuleSplitterReturned
    /\ RuleTierMatches = 0
    /\ Len(RulesMarker) > 0
    /\ \E i \in 1..Len(FindIter(numbered_pattern, 1, x_order_text, 1)) :
         FindIter(numbered_pattern, 1, x_order_text, 1)[i].start
           < RulesMarker[1].start
    /\ Len(ItemStarts) >= 2
    /\ Len(sub_chunks) = Len(ItemStarts)

\* the offsets at which the section headings of full_text start
SectionStarts == MatchStarts(FindIter(section_pattern, 2, full_text, 1))
\* the stripped texts of the section spans: each from its heading to the next
\* heading, the last one to the end of the text
SectionSpans ==
    LET starts == SectionStarts
    IN  [i \in 1..Len(starts) |->
           Strip(Slice(full_text, starts[i],
                       IF i < Len(starts) THEN starts[i + 1]
                       ELSE StrLen(full_text)))]
SectionSpan(i) == SectionSpans[i]
\* the stripped text before the first heading
LeadingText ==
    LET starts == SectionStarts
    IN  IF Len(starts) = 0 THEN <<>> ELSE Strip(Slice(full_text, 0, starts[1]))

\* C21: _chunk_by_sections returns the paragraph split of the text when no
\* section heading matches; otherwise it returns, in order, one chunk per
\* section span (stripped), a section longer than MAX_CHUNK_SIZE replaced by
\* its paragraph split, with the paragraph split of the leading text put in
\* front exactly when that text is longer than 100 characters.
C21_SectionSplitter ==
    (pc = "done")
    => LET spans == SectionSpans
           lead == LeadingText
           sections ==
               [i \in 1..Len(spans) |->
                  IF StrLen(spans[i]) > MAX_CHUNK_SIZE
                  THEN _split_by_paragraphs(spans[i], MAX_CHUNK_SIZE)
                  ELSE <<spans[i]>>]
           front ==
               IF StrLen(lead) > NOISE_LEN
               THEN _split_by_paragraphs(lead, MAX_CHUNK_SIZE)
               ELSE <<>>
       IN  IF Len(spans) = 0
           THEN chunks = _split_by_paragraphs(full_text, MAX_CHUNK_SIZE)
           ELSE /\ Len(front) > 0 <=> StrLen(lead) > NOISE_LEN
                /\ chunks = front \o Concat(sections)

\* C21 witness: a lead-in of more than 100 characters, a short section kept
\* as one chunk and a section longer than MAX_CHUNK_SIZE split by paragraphs
C21_Witness ==
    /\ pc = "done"
    /\ Len(SectionStarts) = 2
    /\ StrLen(LeadingText) > NOISE_LEN
    /\ StrLen(SectionSpan(1)) <= MAX_CHUNK_SIZE
    /\ StrLen(SectionSpan(2)) > MAX_CHUNK_SIZE
    /\ Len(chunks) = 4
    /\ chunks[1] = LeadingText
    /\ chunks[2] = SectionSpan(1)

\* the pieces of s between blank lines, stripped, the empty ones left out
StrippedParas(s) ==
    SelectSeq([i \in 1..Len(SplitParas(s, 1, <<>>)) |->
                  Strip(SplitParas(s, 1, <<>>)[i])],
              LAMBDA para : para # <<>>)
\* the paragraphs of the text given to _split_by_paragraphs
InputParas == StrippedParas(full_text)
\* the first paragraph packed into a chunk
FirstPara(chunk) == SplitParas(chunk, 1, <<>>)[1]

\* C22: every chunk _split_by_paragraphs emits is at most max_size long or is
\* exactly one paragraph of the text that is itself longer than max_size, and
\* packing is greedy: a chunk, "\n\n" and the first paragraph of the chunk
\* after it are together longer than max_size.
C22_GreedyPacking ==
    (pc = "done")
    => /\ \A k \in 1..Len(chunks) :
            \/ StrLen(chunks[k]) <= x_max_size
            \/ /\ IsSingleParagraph(chunks[k])
               /\ \E i \in 1..Len(InputParas) : InputParas[i] = chunks[k]
       /\ \A k \in 1..(Len(chunks) - 1) :
            StrLen(chunks[k]) + 2 + StrLen(FirstPara(chunks[k + 1])) > x_max_size

\* C22 witness: a chunk packed from two paragraphs, followed by a paragraph
\* longer than max_size emitted whole
C22_Witness ==
    /\ pc = "done"
    /\ Len(chunks) = 2
    /\ Len(InputParas) = 3
    /\ ~IsSingleParagraph(chunks[1])
    /\ StrLen(chunks[1]) <= x_max_size
    /\ StrLen(chunks[2]) > x_max_size

\* C23: the chunks of _split_by_paragraphs joined with "\n\n" are the
\* stripped non-empty paragraphs of text.split("\n\n") joined with "\n\n", in
\* their order, each paragraph in exactly one chunk.
C23_ParagraphPartition ==
    (pc = "done")
    => /\ JoinParas(chunks) = JoinParas(InputParas)
       /\ Concat([k \in 1..Len(chunks) |-> SplitParas(chunks[k], 1, <<>>)])
          = InputParas

\* C23 witness: a text with a whitespace-only paragraph and a padded one,
\* split into several chunks
C23_Witness ==
    /\ pc = "done"
    /\ Len(chunks) >= 2
    /\ Len(InputParas) = 2
    /\ Len(SplitParas(full_text, 1, <<>>)) = 3
    /\ JoinParas(InputParas) # full_text
    /\ \E i \in 1..3 : /\ SplitParas(full_text, 1, <<>>)[i] # <<>>
                       /\ Strip(SplitParas(full_text, 1, <<>>)[i]) = <<>>

\* the chunks of a list that are not blank
NonBlank(cs) == SelectSeq(cs, LAMBDA chunk : Strip(chunk) # <<>>)
IsSmall(chunk) == StrLen(chunk) < MIN_CHUNK_SIZE
\* the index at which the maximal run of small chunks starting at i ends
RunEnd(cs, i) ==
    CHOOSE j \in i..Len(cs) :
        /\ \A k \in i..j : IsSmall(cs[k])
        /\ j = Len(cs) \/ ~IsSmall(cs[j + 1])

RECURSIVE TrailingMerge(_, _, _)
\* the trailing-merge policy, run by run, from chunk i on: a chunk of at
\* least MIN_CHUNK_SIZE is emitted as it is; a maximal run of smaller chunks
\* is joined into one buffer, glued to the last emitted chunk when the buffer
\* is still small and such a chunk exists, and emitted on its own otherwise
TrailingMerge(cs, i, out) ==
    IF i > Len(cs) THEN out
    ELSE IF ~IsSmall(cs[i]) THEN TrailingMerge(cs, i + 1, Append(out, cs[i]))
    ELSE LET j == RunEnd(cs, i)
             buffer == JoinParas(SubSeq(cs, i, j))
         IN  TrailingMerge(cs, j + 1,
                 IF IsSmall(buffer) /\ out # <<>>
                 THEN [out EXCEPT ![Len(out)] = @ \o NLNL \o buffer]
                 ELSE Append(out, buffer))

C25_NoShortChunk ==
    (pc = "done" /\ Len(x_validated_chunks) > 1)
    => \A k \in 1..Len(x_validated_chunks) : ~IsSmall(x_validated_chunks[k])

\* C27: in the output of the validator only the chunk at index 0 can be
\* shorter than MIN_CHUNK_SIZE.
C27_OnlyFirstShort ==
    (pc = "done")
    => \A k \in 2..Len(x_validated_chunks) : ~IsSmall(x_validated_chunks[k])

\* C27 witness: an output of several chunks whose first is shorter than
\* MIN_CHUNK_SIZE, small chunks having been glued further on
C27_Witness ==
    /\ pc = "done"
    /\ Len(x_validated_chunks) >= 2
    /\ IsSmall(x_validated_chunks[1])
    /\ Len(NonBlank(chunks)) > Len(x_validated_chunks)
    /\ IsSmall(chunks[Len(chunks)])

\* C28: the validator keeps content and order: its output joined with "\n\n"
\* is the non-blank input chunks joined with "\n\n", every non-blank input
\* chunk is found in the output, the output has no more chunks than the
\* input has non-blank ones, and the input list is left unmodified.
C28_ContentPreserved ==
    /\ [](pc = "done"
          => /\ JoinParas(x_validated_chunks) = JoinParas(NonBlank(chunks))
             /\ Len(x_validated_chunks) <= Len(NonBlank(chunks))
             /\ \A i \in 1..Len(chunks) :
                  Strip(chunks[i]) # <<>>
                  <=> \E k \in 1..Len(x_validated_chunks) :
                        Contains(x_validated_chunks[k], chunks[i]))
    /\ [][chunks' = chunks]_vars

\* C28 witness: an input with blank chunks and small chunks, merged into
\* fewer chunks
C28_Witness ==
    /\ pc = "done"
    /\ Len(chunks) = 4
    /\ Len(NonBlank(chunks)) = 3
    /\ Len(x_validated_chunks) = 2
    /\ Strip(chunks[2]) = <<>>

\* C29: the validator is idempotent: given its own output it returns it.
C29_Idempotent ==
    (pc = "done")
    => _validate_and_merge_chunks(x_validated_chunks) = x_validated_chunks

\* C29 witness: an output in which chunks were merged and whose first chunk
\* is still shorter than MIN_CHUNK_SIZE
C29_Witness ==
    /\ pc = "done"
    /\ Len(x_validated_chunks) = 2
    /\ Len(x_validated_chunks) < Len(NonBlank(chunks))
    /\ IsSmall(x_validated_chunks[1])
    /\ x_validated_chunks # NonBlank(chunks)

\* the methods of SemanticChunker that chunk_document reaches
Functions ==
    {"chunk_document", "_identify_order_boundaries", "_fallback_chunking",
     "_extract_order_chunks", "_split_large_order", "_handle_non_order_content",
     "_chunk_by_sections", "_split_by_paragraphs", "_validate_and_merge_chunks",
     "_log_chunk_statistics"}
\* <<f, g>>: the body of f holds a call of g
Calls ==
    {<<"chunk_document", "_identify_order_boundaries">>,
     <<"chunk_document", "_fallback_chunking">>,
     <<"chunk_document", "_extract_order_chunks">>,
     <<"chunk_document", "_handle_non_order_content">>,
     <<"chunk_document", "_validate_and_merge_chunks">>,
     <<"chunk_document", "_log_chunk_statistics">>,
     <<"_fallback_chunking", "_split_by_paragraphs">>,
     <<"_extract_order_chunks", "_split_large_order">>,
     <<"_split_large_order", "_split_by_paragraphs">>,
     <<"_handle_non_order_content", "_chunk_by_sections">>,
     <<"_chunk_by_sections", "_split_by_paragraphs">>}
\* the Rule Splitter, the Section Splitter and the Paragraph Splitter
Splitters == {"_split_large_order", "_chunk_by_sections", "_split_by_paragraphs"}

SetMax(S) == IF S = {} THEN 0 ELSE CHOOSE x \in S : \A y \in S : y <= x

RECURSIVE SplitterNesting(_, _)
\* the largest number of splitters on a chain of at most fuel nested calls
\* that starts with f
SplitterNesting(f, fuel) ==
    IF fuel = 0 THEN 0
    ELSE (IF f \in Splitters THEN 1 ELSE 0)
         + SetMax({SplitterNesting(g, fuel - 1) :
                     g \in {h \in Functions : <<f, h>> \in Calls}})

\* the number of steps chunk_document has left at most
Rank ==
    CASE pc = "start" -> Len(full_text) + 5
      [] pc = "extract" -> Len(order_boundaries) + 1 - bi + 3
      [] pc = "non_order" -> 2
      [] pc \in {"fallback", "validate"} -> 1
      [] pc = "done" -> 0

\* C26: chunk_document terminates and returns a list without failing: as long
\* as it has not returned some step can be taken, and every step lowers a
\* natural-number rank that is 0 only at the return; a text with no ORDER
\* heading is handed to _split_by_paragraphs, and so is a unit over the
\* threshold with no sub-unit marker; at most two splitters are nested in one
\* another and _split_by_paragraphs calls none.
C26_Termination ==
    /\ [](/\ Rank \in Nat
          /\ Rank = 0 <=> Returned
          /\ ~Returned => StepEnabled
          /\ Returned => DOMAIN chunks = 1..Len(chunks)
          /\ (Returned /\ ~StructuredPath)
             => chunks = _split_by_paragraphs(full_text, FALLBACK_SIZE)
          /\ (RuleSplitterReturned /\ Len(RuleStarts(x_order_text)) = 0)
             => sub_chunks = _split_by_paragraphs(x_order_text, MAX_CHUNK_SIZE)
          /\ SplitterNesting("chunk_document", Cardinality(Functions) + 1) <= 2
          /\ \A g \in Functions : <<"_split_by_paragraphs", g>> \notin Calls)
    /\ [][Rank' < Rank]_vars

\* C26 witness: chunk_document has returned after the Rule Splitter handed an
\* over-sized sub-unit chunk of the last unit to the Paragraph Splitter
C26_Witness ==
    /\ Returned
    /\ StructuredPath
    /\ StrLen(x_order_text) > RULE_SPLIT_THRESHOLD
    /\ Len(RuleStarts(x_order_text)) > 0
    /\ Len(sub_chunks) > Len(BuiltChunks)

\* the last boundary record of the detected list
LastBoundary == order_boundaries[Len(order_boundaries)]

====
